---- MODULE Spec2Model ----
(***************************************************************************)
(* Telebroad webhook events -> one call record per call.                   *)
(*                                                                         *)
(* The model holds the two Airtable tables the merge works on (the staging *)
(* table "Webhook Events" and the table "Calls"), the webhook receiver     *)
(* that appends events, and the merge passes that fold the unprocessed     *)
(* events of a call into its call record:                                  *)
(*   - the Node merger  (WebhookMergerService, services/webhookMerger.js), *)
(*   - the Apps Script merge (mergeWebhookEvents, LevLehazin.gs),          *)
(* each cut at its store calls (the awaits), so that store failures, a     *)
(* stop of the process and appends can fall between them.                  *)
(* The extraction rules of the four implementations that write call        *)
(* records are operators, applied to bounded event groups in SpecExtract.  *)
(* SpecReceive is the receiver with its validation, SpecStream the         *)
(* streaming handler with its cache, cut at the await of its save.         *)
(*                                                                         *)
(* Values: a text field that is absent is "" (Airtable stores "" as an     *)
(* empty cell), a time that is absent is 0, a record id that is absent is  *)
(* 0. Times are whole seconds.                                             *)
(***************************************************************************)
EXTENDS Naturals, Integers, Sequences, FiniteSets, TLC

VARIABLES
  events,    \* table "Webhook Events": sequence in order of 'Received At'
  calls,     \* table "Calls": sequence of call records, id = position
  pass,      \* the merge passes: per pass its position and locals
  result,    \* per pass, the value a run returned in the last step, if any
  lastRun,   \* history: how the last completed run went, until the next
             \* append or the next run that finds groups
  grp,       \* SpecExtract: the event group given to the extraction rules
  out,       \* SpecExtract: the call data an implementation computed
  callCache, \* streaming handler: the Map callId -> call data object
  callData,  \* streaming handler: the call data objects it created
  saving,    \* streaming handler: per caller of saveCallToAirtable, the
             \* object it is saving
  now        \* the clock, in seconds

\* the state of the streaming handler
streamVars == <<callCache, callData, saving, now>>

vars == <<events, calls, pass, result, lastRun, grp, out, streamVars>>

(***************************************************************************)
(* Bounds of the model.                                                    *)
(***************************************************************************)
MaxEvents == 3     \* events the receiver appends
MaxCalls == 2      \* call records the store holds
MaxGroup == 3      \* length of a group given to the extraction rules
\* records one query of the staging table returns. select().firstPage()
\* returns one page, 100 records in Airtable; the model scales the page down
\* so that "more unprocessed events than one page" happens within MaxEvents.
PageSize == 2

CallIds == {"c1", "c2"}
NoCallId == ""

(***************************************************************************)
(* Webhooks Telebroad sends: events of the sample call of                  *)
(* scripts/test-telebroad-webhook.js (times in seconds after 15:10:42, the *)
(* call starts at 1), and variants of them: an end sent by the phone with  *)
(* its own time, an outgoing call, an IVR leg without a name, a hunt group *)
(* without a name ringing a phone without a name. All carry startTime and  *)
(* callStartTime, as Telebroad's do.                                       *)
(***************************************************************************)
Wh(st, dir, sT, sN, sNum, dT, dN, dNum, t) ==
  [status |-> st, direction |-> dir,
   sendType |-> sT, sendName |-> sN, sendNumber |-> sNum,
   destinationType |-> dT, destinationName |-> dN, destinationNumber |-> dNum,
   calledNumber |-> "17186732999",
   callerIdExternal |-> "18455021115", callerNameExternal |-> "",
   startTime |-> t, callStartTime |-> 1]

Webhooks == <<
  Wh("ringing",  "incoming", "external",  "18455021115", "18455021115",
     "ivr", "Day", "57880", 1),
  Wh("answered", "incoming", "huntgroup", "talk to Madrech", "44070",
     "phone", "Chaim David Klein", "2845869", 39),
  Wh("ended",    "incoming", "external",  "18455021115", "18455021115",
     "ivr", "Day", "57880", 1),
  Wh("ringing",  "incoming", "ivr",       "before connecting", "57964",
     "huntgroup", "talk to Madrech", "44070", 39),
  Wh("ringing",  "incoming", "ivr",       "Day", "57880",
     "ivr", "discuss something", "57882", 15),
  Wh("answered", "incoming", "ivr",       "before connecting", "57964",
     "huntgroup", "talk to Madrech", "44070", 39),
  Wh("ended",    "incoming", "phone",     "Chaim David Klein", "2845869",
     "external", "", "", 60),
  Wh("answered", "outgoing", "phone",     "Chaim David Klein", "2845869",
     "phone", "Front Desk", "201", 5),
  Wh("ringing",  "outgoing", "phone",     "Chaim David Klein", "2845869",
     "external", "18455021115", "18455021115", 1),
  Wh("ringing",  "incoming", "huntgroup", "talk to Madrech", "44070",
     "ivr", "", "57880", 15),
  Wh("ringing",  "incoming", "huntgroup", "", "44070",
     "phone", "", "2845869", 39)
>>

\* the webhooks of one call in the process specifications, in the order
\* Telebroad sends them: ringing at the IVR, answered by a phone, ended
CallScript == <<1, 2, 3>>
\* the webhooks of the groups SpecExtract draws
ExtractKinds == 1..Len(Webhooks)

(***************************************************************************)
(* The staging table.                                                      *)
(***************************************************************************)
\* createEvent: the row of one webhook; a missing callId is stored as ''.
\* 'Received At' is the clock at arrival: rows are kept in arrival order and
\* id is the position.
createEvent(id, callId, w) ==
  [id |-> id, callId |-> callId,
   status |-> w.status, direction |-> w.direction,
   sendType |-> w.sendType, sendName |-> w.sendName, sendNumber |-> w.sendNumber,
   destinationType |-> w.destinationType, destinationName |-> w.destinationName,
   destinationNumber |-> w.destinationNumber,
   calledNumber |-> w.calledNumber,
   callerIdExternal |-> w.callerIdExternal,
   callerNameExternal |-> w.callerNameExternal,
   startTime |-> w.startTime, callStartTime |-> w.callStartTime,
   processed |-> FALSE, mergedCallRecord |-> 0]

\* 'Received At' of a row: the receiver's clock, later than the times the
\* webhooks of the catalogue carry, and increasing with arrival.
ArrivalBase == 100
ReceivedAt(e) == ArrivalBase + e.id

(***************************************************************************)
(* Helpers on sequences.                                                   *)
(***************************************************************************)
SeqRange(s) == {s[i] : i \in 1..Len(s)}

\* Array.prototype.sort with the comparator key(a) - key(b), kf the key of
\* each element: stable (each element goes after the last one whose key is
\* not greater).
RECURSIVE InsertByKey(_, _, _)
InsertByKey(s, x, kf) ==
  IF s = <<>> THEN <<x>>
  ELSE IF kf[s[Len(s)]] <= kf[x] THEN Append(s, x)
  ELSE Append(InsertByKey(SubSeq(s, 1, Len(s) - 1), x, kf), s[Len(s)])

RECURSIVE SortByKey(_, _)
SortByKey(s, kf) ==
  IF s = <<>> THEN <<>>
  ELSE InsertByKey(SortByKey(SubSeq(s, 1, Len(s) - 1), kf), s[Len(s)], kf)

\* ivrPath.join(' -> ')
RECURSIVE Join(_)
Join(names) ==
  IF names = <<>> THEN ""
  ELSE IF Len(names) = 1 THEN names[1]
  ELSE names[1] \o " -> " \o Join(Tail(names))

(***************************************************************************)
(* WebhookMergerService.extractCallData (Node merger).                     *)
(***************************************************************************)
\* mergeCallEvents: new Date(a['Start Time'] || a['Received At'])
NodeSortKey(e) == IF e.startTime # 0 THEN e.startTime ELSE ReceivedAt(e)
NodeSort(evs) == SortByKey(evs, [e \in SeqRange(evs) |-> NodeSortKey(e)])

IsAnsweredByPhone(e) == e.status = "answered" /\ e.destinationType = "phone"
IsEndedFromExternal(e) == e.status = "ended" /\ e.sendType = "external"
IsHuntGroupLeg(e) == e.destinationType = "huntgroup" \/ e.sendType = "huntgroup"

\* a forEach that skips a name only when it is the one appended last
RECURSIVE BuildIvrPathAdjacent(_)
BuildIvrPathAdjacent(evs) ==
  IF evs = <<>> THEN <<>>
  ELSE LET before == BuildIvrPathAdjacent(SubSeq(evs, 1, Len(evs) - 1))
           e == evs[Len(evs)]
       IN IF e.destinationType = "ivr" /\ e.destinationName # ""
             /\ (before = <<>> \/ before[Len(before)] # e.destinationName)
          THEN Append(before, e.destinationName)
          ELSE before

\* a forEach that does not look at the destination type
RECURSIVE BuildIvrPathAnyLeg(_)
BuildIvrPathAnyLeg(evs) ==
  IF evs = <<>> THEN <<>>
  ELSE LET before == BuildIvrPathAnyLeg(SubSeq(evs, 1, Len(evs) - 1))
           e == evs[Len(evs)]
       IN IF e.destinationName # ""
             /\ e.destinationName \notin SeqRange(before)
          THEN Append(before, e.destinationName)
          ELSE before

\* the forEach building ivrPath: destination names of IVR legs, each once
RECURSIVE BuildIvrPath(_)
BuildIvrPath(evs) ==
  IF evs = <<>> THEN <<>>
  ELSE LET before == BuildIvrPath(SubSeq(evs, 1, Len(evs) - 1))
           e == evs[Len(evs)]
       IN IF e.destinationType = "ivr" /\ e.destinationName # ""
             /\ e.destinationName \notin SeqRange(before)
          THEN Append(before, e.destinationName)
          ELSE before

\* huntGroupEvent ? (Destination Name || Send Name) : null
HuntGroupOf(evs) ==
  LET hg == SelectSeq(evs, IsHuntGroupLeg)
  IN IF hg = <<>> THEN ""
     ELSE IF hg[1].destinationName # "" THEN hg[1].destinationName
     ELSE hg[1].sendName

\* the decision table of extractCallData
FinalStatusOf(wasAnswered, huntGroup, ivrPath) ==
  IF wasAnswered THEN "Answered"
  ELSE IF huntGroup # "" THEN "Missed"
  ELSE IF Len(ivrPath) > 0 THEN "IVR Only"
  ELSE "Abandoned"

DirectionOf(firstEvent, finalStatus) ==
  IF finalStatus = "Answered"
  THEN (IF firstEvent.direction = "incoming" THEN "Inbound" ELSE "Outbound")
  ELSE "Missed"

\* firstEvent['Direction'] with firstEvent undefined
TypeError == [threw |-> "TypeError"]

\* extractCallData(events), events already sorted. Without events, events[0]
\* is undefined and the read of its Direction throws. Two texts are left
\* out, which the merge writes and never reads: the summary (a function of
\* the fields below) and rawWebhookData (the JSON of the group).
extractCallData(evs) ==
  LET firstEvent == evs[1]
      answered == SelectSeq(evs, IsAnsweredByPhone)
      ended == SelectSeq(evs, IsEndedFromExternal)
      ivrPath == BuildIvrPath(evs)
      huntGroup == HuntGroupOf(evs)
      finalStatus == FinalStatusOf(answered # <<>>, huntGroup, ivrPath)
  IN IF evs = <<>> THEN TypeError ELSE
     [telebroadCallId |-> firstEvent.callId,
      direction |-> DirectionOf(firstEvent, finalStatus),
      dateTime |-> IF firstEvent.callStartTime # 0 THEN firstEvent.callStartTime
                   ELSE firstEvent.startTime,
      callerNumber |-> IF firstEvent.callerIdExternal # ""
                       THEN firstEvent.callerIdExternal ELSE firstEvent.sendNumber,
      callerName |-> firstEvent.callerNameExternal,
      calledNumber |-> firstEvent.calledNumber,
      ivrPath |-> Join(ivrPath),
      huntGroup |-> huntGroup,
      finalStatus |-> finalStatus,
      callStartTime |-> firstEvent.callStartTime,
      endTimeNull |-> (ended = <<>>),
      endTime |-> IF ended = <<>> THEN 0 ELSE ended[1].startTime,
      duration |-> IF answered # <<>> /\ ended # <<>>
                   THEN ended[1].startTime - answered[1].startTime ELSE 0,
      webhookEvents |-> Len(evs),
      pickedUpByName |-> IF answered = <<>> THEN "" ELSE answered[1].destinationName,
      pickedUpByExtension |-> IF answered = <<>> THEN ""
                              ELSE answered[1].destinationNumber,
      answerTime |-> IF answered = <<>> THEN 0 ELSE answered[1].startTime]

(***************************************************************************)
(* processCallEvents (Apps Script merge): the callData it writes.          *)
(***************************************************************************)
\* new Date(a.fields['Start Time'] || a.fields['Call Start Time'] || 0)
GasSortKey(e) == IF e.startTime # 0 THEN e.startTime ELSE e.callStartTime
GasSort(evs) == SortByKey(evs, [e \in SeqRange(evs) |-> GasSortKey(e)])

\* evs in the order of the query; the caller is read before the sort, the
\* rest after it. direction is 'Inbound' unless a branch sets 'Missed'.
\* Left out: the summary and 'Webhook Events 2' (the ids of the group),
\* which the merge writes and never reads.
GasCallData(callId, evs) ==
  LET firstEvent == evs[1]
      sorted == GasSort(evs)
      first == sorted[1]
      last == sorted[Len(sorted)]
      answered == SelectSeq(sorted, IsAnsweredByPhone)
      ivrPath == BuildIvrPath(sorted)
      huntGroup == HuntGroupOf(sorted)
      finalStatus == FinalStatusOf(answered # <<>>, huntGroup, ivrPath)
      startTime == IF first.callStartTime # 0 THEN first.callStartTime
                   ELSE first.startTime
      endTime == last.startTime
  IN [tbCallId |-> callId,
      direction |-> IF answered # <<>> THEN "Inbound" ELSE "Missed",
      finalStatus |-> finalStatus,
      dateTime |-> startTime,
      callStartTime |-> startTime,
      endTime |-> endTime,
      answerTime |-> IF answered = <<>> THEN 0 ELSE answered[1].startTime,
      duration |-> IF startTime # 0 /\ endTime # 0 THEN endTime - startTime ELSE 0,
      ivrPath |-> Join(ivrPath),
      huntGroup |-> huntGroup,
      callerNumber |-> IF firstEvent.callerIdExternal # ""
                       THEN firstEvent.callerIdExternal
                       ELSE IF firstEvent.sendNumber # "" THEN firstEvent.sendNumber
                       ELSE "Unknown",
      callerName |-> firstEvent.callerNameExternal,
      calledNumber |-> first.calledNumber,
      pickedUpByName |-> IF answered = <<>> THEN "" ELSE answered[1].destinationName,
      pickedUpByExtension |-> IF answered = <<>> THEN ""
                              ELSE answered[1].destinationNumber,
      huntGroupNull |-> (SelectSeq(sorted, IsHuntGroupLeg) = <<>>),
      answerNull |-> (answered = <<>>),
      webhookEvents |-> Len(sorted)]

(***************************************************************************)
(* The Airtable automation script (merge-webhook-to-calls.js): the fields  *)
(* it writes to the call record. finalStatus goes into the summary only.   *)
(***************************************************************************)
ScriptCallData(evs) ==
  LET allEvents == GasSort(evs)
      firstEvent == allEvents[1]
      lastEvent == allEvents[Len(allEvents)]
      answered == SelectSeq(allEvents, IsAnsweredByPhone)
      ivrPath == BuildIvrPath(allEvents)
      huntGroup == HuntGroupOf(allEvents)
  IN [direction |-> IF answered # <<>> THEN "Inbound" ELSE "Missed",
      finalStatus |-> FinalStatusOf(answered # <<>>, huntGroup, ivrPath),
      dateTime |-> IF firstEvent.callStartTime # 0 THEN firstEvent.callStartTime
                   ELSE firstEvent.startTime,
      duration |-> IF answered # <<>>
                   THEN lastEvent.startTime - answered[1].startTime ELSE 0]

(***************************************************************************)
(* The streaming handler (webhooks/telebroad-handler.js): one cache entry  *)
(* per call, updated by each webhook, saved when the caller's leg ends.    *)
(* uniqueIds and lastWebhook are left out: nothing reads them back.        *)
(***************************************************************************)
createInitialCallData(w) ==
  [callId |-> w.callId,
   direction |-> IF w.direction = "incoming" THEN "Inbound" ELSE "Outbound",
   callerNumber |-> IF w.callerIdExternal # "" THEN w.callerIdExternal
                    ELSE w.sendNumber,
   callerName |-> w.callerNameExternal,
   calledNumber |-> w.calledNumber,
   callStartTime |-> IF w.callStartTime # 0 THEN w.callStartTime ELSE w.startTime,
   ivrPath |-> <<>>, huntGroup |-> "",
   answeredBy |-> "", answeredByExtension |-> "",
   answerTime |-> 0, endTime |-> 0,
   finalStatus |-> "IVR Only", wasAnswered |-> FALSE, webhookEvents |-> 0]

updateCallData(cd, w) ==
  LET ivr == IF w.destinationType = "ivr" /\ w.destinationName # ""
                /\ w.destinationName \notin SeqRange(cd.ivrPath)
             THEN Append(cd.ivrPath, w.destinationName) ELSE cd.ivrPath
      hg == IF IsHuntGroupLeg(w)
            THEN (IF w.destinationName # "" THEN w.destinationName ELSE w.sendName)
            ELSE cd.huntGroup
      ans == IsAnsweredByPhone(w)
      wasAnswered == cd.wasAnswered \/ ans
      answeredBy == IF ans THEN w.destinationName ELSE cd.answeredBy
      status1 == IF ans THEN "Answered" ELSE cd.finalStatus
      status2 == IF w.status = "ended" /\ ~wasAnswered
                 THEN (IF hg # "" /\ answeredBy = "" THEN "Missed"
                       ELSE IF Len(ivr) > 0 /\ hg = "" THEN "IVR Only"
                       ELSE "Abandoned")
                 ELSE status1
  IN [cd EXCEPT !.webhookEvents = @ + 1,
                !.ivrPath = ivr,
                !.huntGroup = hg,
                !.wasAnswered = wasAnswered,
                !.answeredBy = answeredBy,
                !.answeredByExtension = IF ans THEN w.destinationNumber ELSE @,
                !.answerTime = IF ans THEN w.startTime ELSE @,
                !.finalStatus = status2,
                !.endTime = IF w.status = "ended"
                               /\ (cd.endTime = 0 \/ w.startTime > cd.endTime)
                            THEN w.startTime ELSE @]

\* the cache entry after the webhooks ws of one call, in arrival order
RECURSIVE StreamFold(_)
StreamFold(ws) ==
  IF Len(ws) = 1 THEN updateCallData(createInitialCallData(ws[1]), ws[1])
  ELSE updateCallData(StreamFold(SubSeq(ws, 1, Len(ws) - 1)), ws[Len(ws)])

\* saveCallToAirtable: airtableData, duration only with both times
airtableData(cd) ==
  [telebroadCallId |-> cd.callId,
   direction |-> IF cd.finalStatus = "Missed" THEN "Missed" ELSE cd.direction,
   dateTime |-> cd.callStartTime,
   callerNumber |-> cd.callerNumber,
   calledNumber |-> cd.calledNumber,
   callerName |-> cd.callerName,
   ivrPath |-> Join(cd.ivrPath),
   huntGroup |-> cd.huntGroup,
   pickedUpByName |-> cd.answeredBy,
   pickedUpByExtension |-> cd.answeredByExtension,
   finalStatus |-> cd.finalStatus,
   callStartTime |-> cd.callStartTime,
   answerTime |-> cd.answerTime,
   endTimeNull |-> (cd.endTime = 0),
   endTime |-> cd.endTime,
   webhookEvents |-> cd.webhookEvents,
   duration |-> IF cd.answerTime # 0 /\ cd.endTime # 0
                THEN cd.endTime - cd.answerTime ELSE 0]

\* what the handler saves for the webhooks ws of one call: the entry at the
\* first end of the caller's leg (handleTelebroadWebhook), or, when that
\* webhook never comes, the entry flushStaleCalls closes after the timeout
StreamSaved(ws) ==
  LET ends == {i \in 1..Len(ws) : IsEndedFromExternal(ws[i])}
      k == CHOOSE i \in ends : \A j \in ends : i <= j
      cd == StreamFold(ws)
  IN IF ends # {}
     THEN airtableData(StreamFold(SubSeq(ws, 1, k)))
     ELSE airtableData([cd EXCEPT !.finalStatus =
                          IF cd.wasAnswered THEN "Answered" ELSE "Abandoned"])

(***************************************************************************)
(* CallService: the table "Calls".                                         *)
(***************************************************************************)
\* a createCall that writes the call id to the legacy field 'Telebroad Call
\* ID', as updateCall does
createCallLegacyId(d) ==
  [tbCallId |-> "",
   telebroadCallId |-> d.telebroadCallId,
   dateTime |-> IF d.dateTime # 0 THEN d.dateTime ELSE ArrivalBase,
   direction |-> IF d.direction # "" THEN d.direction ELSE "Inbound",
   duration |-> d.duration,
   callerNumber |-> d.callerNumber,
   callerName |-> d.callerName,
   calledNumber |-> d.calledNumber,
   ivrPath |-> d.ivrPath,
   huntGroup |-> d.huntGroup,
   pickedUpByName |-> d.pickedUpByName,
   pickedUpByExtension |-> d.pickedUpByExtension,
   finalStatus |-> d.finalStatus,
   callStartTime |-> d.callStartTime,
   answerTime |-> d.answerTime,
   endTime |-> d.endTime,
   webhookEvents |-> d.webhookEvents]

\* createCall: Date/Time and Direction always, Duration and Webhook Events
\* when defined, every other field only when its value is truthy. The call
\* id goes to the field 'TB Call ID'.
createCall(d) ==
  [tbCallId |-> d.telebroadCallId,
   telebroadCallId |-> "",
   dateTime |-> IF d.dateTime # 0 THEN d.dateTime ELSE ArrivalBase,
   direction |-> IF d.direction # "" THEN d.direction ELSE "Inbound",
   duration |-> d.duration,
   callerNumber |-> d.callerNumber,
   callerName |-> d.callerName,
   calledNumber |-> d.calledNumber,
   ivrPath |-> d.ivrPath,
   huntGroup |-> d.huntGroup,
   pickedUpByName |-> d.pickedUpByName,
   pickedUpByExtension |-> d.pickedUpByExtension,
   finalStatus |-> d.finalStatus,
   callStartTime |-> d.callStartTime,
   answerTime |-> d.answerTime,
   endTime |-> d.endTime,
   webhookEvents |-> d.webhookEvents]

\* updateCall: every field whose value is not undefined is written, null and
\* '' included (they clear the cell); an undefined value leaves the cell as
\* it is. The call id goes to the field 'Telebroad Call ID', 'TB Call ID' is
\* not written. Values read from an absent cell of an event are undefined.
updateCall(r, d) ==
  [tbCallId |-> r.tbCallId,
   telebroadCallId |-> IF d.telebroadCallId # "" THEN d.telebroadCallId
                       ELSE r.telebroadCallId,
   dateTime |-> IF d.dateTime # 0 THEN d.dateTime ELSE r.dateTime,
   direction |-> d.direction,
   duration |-> d.duration,
   callerNumber |-> IF d.callerNumber # "" THEN d.callerNumber ELSE r.callerNumber,
   callerName |-> d.callerName,
   calledNumber |-> IF d.calledNumber # "" THEN d.calledNumber ELSE r.calledNumber,
   ivrPath |-> d.ivrPath,
   huntGroup |-> d.huntGroup,
   pickedUpByName |-> IF d.pickedUpByName # "" THEN d.pickedUpByName
                      ELSE r.pickedUpByName,
   pickedUpByExtension |-> IF d.pickedUpByExtension # "" THEN d.pickedUpByExtension
                           ELSE r.pickedUpByExtension,
   finalStatus |-> d.finalStatus,
   callStartTime |-> IF d.callStartTime # 0 THEN d.callStartTime ELSE r.callStartTime,
   answerTime |-> IF d.answerTime # 0 THEN d.answerTime ELSE r.answerTime,
   endTime |-> IF d.endTimeNull THEN 0
               ELSE IF d.endTime # 0 THEN d.endTime ELSE r.endTime,
   webhookEvents |-> d.webhookEvents]

\* a lookup by the legacy field 'Telebroad Call ID', which createCall does
\* not write
findByLegacyId(tbl, callId) ==
  LET hits == {i \in 1..Len(tbl) : tbl[i].telebroadCallId = callId}
  IN IF hits = {} THEN {0} ELSE hits

\* findByTelebroadId: the records whose 'TB Call ID' is the id, latest
\* Date/Time first; the first of them, or none (0). Equal Date/Time leaves
\* the order to the store.
findByTelebroadId(tbl, callId) ==
  LET hits == {i \in 1..Len(tbl) : tbl[i].tbCallId = callId}
      top == {i \in hits : \A j \in hits : tbl[j].dateTime <= tbl[i].dateTime}
  IN IF hits = {} THEN {0} ELSE top

(***************************************************************************)
(* The Apps Script merge on the table "Calls".                             *)
(***************************************************************************)
\* createRecord(CALLS, callData): null, undefined and '' are not sent
GasCreate(d) ==
  [tbCallId |-> d.tbCallId,
   telebroadCallId |-> "",
   dateTime |-> d.dateTime,
   direction |-> d.direction,
   duration |-> d.duration,
   callerNumber |-> d.callerNumber,
   callerName |-> d.callerName,
   calledNumber |-> d.calledNumber,
   ivrPath |-> d.ivrPath,
   huntGroup |-> d.huntGroup,
   pickedUpByName |-> d.pickedUpByName,
   pickedUpByExtension |-> d.pickedUpByExtension,
   finalStatus |-> d.finalStatus,
   callStartTime |-> d.callStartTime,
   answerTime |-> d.answerTime,
   endTime |-> d.endTime,
   webhookEvents |-> d.webhookEvents]

\* updateRecord(CALLS, id, callData): undefined and '' are not sent (the
\* cell stays), null is sent (the cell is cleared)
GasUpdate(r, d) ==
  [tbCallId |-> d.tbCallId,
   telebroadCallId |-> r.telebroadCallId,
   dateTime |-> IF d.dateTime # 0 THEN d.dateTime ELSE r.dateTime,
   direction |-> d.direction,
   duration |-> d.duration,
   callerNumber |-> d.callerNumber,
   callerName |-> d.callerName,
   calledNumber |-> IF d.calledNumber # "" THEN d.calledNumber ELSE r.calledNumber,
   ivrPath |-> d.ivrPath,
   huntGroup |-> IF d.huntGroupNull THEN ""
                 ELSE IF d.huntGroup # "" THEN d.huntGroup ELSE r.huntGroup,
   pickedUpByName |-> IF d.answerNull THEN ""
                      ELSE IF d.pickedUpByName # "" THEN d.pickedUpByName
                      ELSE r.pickedUpByName,
   pickedUpByExtension |-> IF d.answerNull THEN ""
                           ELSE IF d.pickedUpByExtension # ""
                           THEN d.pickedUpByExtension ELSE r.pickedUpByExtension,
   finalStatus |-> d.finalStatus,
   callStartTime |-> IF d.callStartTime # 0 THEN d.callStartTime
                     ELSE r.callStartTime,
   answerTime |-> IF d.answerNull THEN 0
                  ELSE IF d.answerTime # 0 THEN d.answerTime ELSE r.answerTime,
   endTime |-> IF d.endTime # 0 THEN d.endTime ELSE r.endTime,
   webhookEvents |-> d.webhookEvents]

\* findCallByTBId: {TB Call ID}="id", maxRecords=1: the first hit, or none
findCallByTBId(tbl, callId) ==
  LET hits == {i \in 1..Len(tbl) : tbl[i].tbCallId = callId}
  IN IF hits = {} THEN 0 ELSE CHOOSE i \in hits : \A j \in hits : i <= j

(***************************************************************************)
(* WebhookEventService: queries of the staging table.                      *)
(***************************************************************************)
\* getUnprocessedEvents: {Processed} = FALSE(), by 'Received At', first page
Unprocessed(tbl) == SelectSeq(tbl, LAMBDA e : ~e.processed)
getUnprocessedEvents(tbl) ==
  LET u == Unprocessed(tbl)
  IN IF Len(u) <= PageSize THEN u ELSE SubSeq(u, 1, PageSize)

\* the key of grouped[callId]: the cell 'Call ID' as read back; an empty cell
\* is not returned by the store, and the property name of undefined is
\* "undefined"
NodeGroupKey(e) == IF e.callId = NoCallId THEN "undefined" ELSE e.callId

\* a grouping with grouped[callId] = [event] for every event: each group
\* keeps the last event of its call only
RECURSIVE NodeGroupOverwrite(_)
NodeGroupOverwrite(evs) ==
  IF evs = <<>> THEN <<>>
  ELSE LET before == NodeGroupOverwrite(SubSeq(evs, 1, Len(evs) - 1))
           e == evs[Len(evs)]
           k == NodeGroupKey(e)
           at == {i \in 1..Len(before) : before[i].key = k}
       IN IF at = {}
          THEN Append(before, [key |-> k, evs |-> <<e>>])
          ELSE [i \in 1..Len(before) |->
                  IF i \in at THEN [before[i] EXCEPT !.evs = <<e>>]
                  ELSE before[i]]

\* getEventsGroupedByCallId after the query: the groups in the order of
\* Object.keys (first appearance), each with its events in query order
RECURSIVE NodeGroup(_)
NodeGroup(evs) ==
  IF evs = <<>> THEN <<>>
  ELSE LET before == NodeGroup(SubSeq(evs, 1, Len(evs) - 1))
           e == evs[Len(evs)]
           k == NodeGroupKey(e)
           at == {i \in 1..Len(before) : before[i].key = k}
       IN IF at = {}
          THEN Append(before, [key |-> k, evs |-> <<e>>])
          ELSE [i \in 1..Len(before) |->
                  IF i \in at THEN [before[i] EXCEPT !.evs = Append(@, e)]
                  ELSE before[i]]

\* getUnprocessedEvents of the Apps Script merge: NOT({Processed}), the
\* records of one response (the offset of the response is not followed)
GasUnprocessedEvents(tbl) ==
  LET u == Unprocessed(tbl)
  IN IF Len(u) <= PageSize THEN u ELSE SubSeq(u, 1, PageSize)

\* groupByCallId: an event without Call ID goes to no group
groupByCallId(evs) == NodeGroup(SelectSeq(evs, LAMBDA e : e.callId # NoCallId))

\* an update of the batch that sets the link and not the checkbox
MarkBatchLinkOnly(tbl, ids, recId) ==
  [i \in 1..Len(tbl) |->
     IF tbl[i].id \in ids
     THEN [tbl[i] EXCEPT !.mergedCallRecord = recId]
     ELSE tbl[i]]

\* a write of the batch that replaces the rows: the cells that are not sent
\* are cleared
MarkBatchReplace(tbl, ids, recId) ==
  [i \in 1..Len(tbl) |->
     IF tbl[i].id \in ids
     THEN [f \in DOMAIN tbl[i] |->
             IF f = "id" THEN tbl[i].id
             ELSE IF f = "processed" THEN TRUE
             ELSE IF f = "mergedCallRecord" THEN recId
             ELSE IF f \in {"startTime", "callStartTime"} THEN 0
             ELSE ""]
     ELSE tbl[i]]

\* a mark by call: every row of the calls of the batch, the rows that came
\* after the query included
MarkBatchWholeCall(tbl, ids, recId) ==
  [i \in 1..Len(tbl) |->
     IF \E j \in 1..Len(tbl) : tbl[j].id \in ids /\ tbl[j].callId = tbl[i].callId
     THEN [tbl[i] EXCEPT !.processed = TRUE, !.mergedCallRecord = recId]
     ELSE tbl[i]]

\* markMultipleAsProcessed, one batch: base(...).update(batch)
BatchLimit == 10
MarkBatch(tbl, ids, recId) ==
  [i \in 1..Len(tbl) |->
     IF tbl[i].id \in ids
     THEN [tbl[i] EXCEPT !.processed = TRUE, !.mergedCallRecord = recId]
     ELSE tbl[i]]

(***************************************************************************)
(* State of a merge pass. pc is the store call the pass is about to make   *)
(* for group gi: "find", "upsert", "mark"; "idle" when no run is under     *)
(* way. log has one entry per group the run is done with: how it ended     *)
(* ("ok", or the call that threw) and whether an event of the group was    *)
(* marked by then. noAppend: no event was appended since the run fetched;  *)
(* all: the run's query returned every unprocessed event.                  *)
(***************************************************************************)
Passes == {"A", "B"}

IdlePass ==
  [pc |-> "idle", impl |-> "", groups |-> <<>>, gi |-> 0, mi |-> 0,
   existing |-> 0, recId |-> 0, created |-> 0, updated |-> 0,
   log |-> <<>>, noAppend |-> FALSE, all |-> FALSE]

NoResult == [status |-> "none", processed |-> 0, created |-> 0, updated |-> 0]
\* a run that ends by throwing when a group of it failed
RethrowGroupError(n, c, u) ==
  [status |-> "threw", processed |-> 0, created |-> 0, updated |-> 0]

Returned(n, c, u) ==
  [status |-> "returned", processed |-> n, created |-> c, updated |-> u]
Threw == [status |-> "threw", processed |-> 0, created |-> 0, updated |-> 0]

NoResults == [p \in Passes |-> NoResult]

\* no completed run to speak of
NoLast == [impl |-> "", log |-> <<>>, groups |-> 0, all |-> FALSE, quiet |-> FALSE]

NoOut == [impl |-> "none"]

\* the callers of saveCallToAirtable that can be under way at the same time:
\* two requests in handleTelebroadWebhook, and flushStaleCalls
Handlers == {"h1", "h2"}
Savers == Handlers \cup {"flush"}

\* the streaming handler after the start of the process: an empty Map, no
\* save under way (0: no object)
StreamIdle ==
  /\ callCache = [c \in CallIds |-> 0]
  /\ callData = <<>>
  /\ saving = [h \in Savers |-> 0]
  /\ now = ArrivalBase

Init ==
  /\ events = <<>>
  /\ calls = <<>>
  /\ pass = [p \in Passes |-> IdlePass]
  /\ result = NoResults
  /\ lastRun = NoLast
  /\ grp = <<>>
  /\ StreamIdle
  /\ out = NoOut

(***************************************************************************)
(* The receiver.                                                           *)
(***************************************************************************)
AppendEvent(callId) ==
  LET sent == Len(SelectSeq(events, LAMBDA e : e.callId = callId))
  IN /\ Len(events) < MaxEvents
     /\ sent < Len(CallScript)
     /\ events' = Append(events, createEvent(Len(events) + 1, callId,
                                             Webhooks[CallScript[sent + 1]]))
     /\ pass' = [p \in Passes |-> [pass[p] EXCEPT !.noAppend = FALSE]]
     /\ lastRun' = NoLast
     /\ result' = NoResults
     /\ UNCHANGED <<calls, grp, streamVars, out>>

\* handleWebhookWithValidation: callId, status and direction present
Receive == \E c \in CallIds : AppendEvent(c)

\* importSampleWebhooks: createEvent of each line of the file, a line
\* without callId included
Import == AppendEvent(NoCallId)

(***************************************************************************)
(* WebhookMergerService.processUnprocessedEvents, cut at its awaits.       *)
(***************************************************************************)
Group(ps) == ps.groups[ps.gi]
\* mergeCallEvents sorts the group in place before it extracts
NodeCallData(g) == extractCallData(NodeSort(g.evs))

\* the end of the loop body for group gi: the next group, or the return of
\* the summary after the last one
NodeAdvance(p, ps, how) ==
  LET marked == \E i \in 1..Len(Group(ps).evs) : events'[Group(ps).evs[i].id].processed
      done == [ps EXCEPT !.log = Append(@, [how |-> how, marked |-> marked])]
  IN IF ps.gi = Len(ps.groups)
     THEN /\ pass' = [pass EXCEPT ![p] = IdlePass]
          /\ result' = [NoResults EXCEPT ![p] =
                          Returned(Len(ps.groups), ps.created, ps.updated)]
          /\ lastRun' = [impl |-> ps.impl, log |-> done.log, groups |-> Len(ps.groups),
                       all |-> ps.all, quiet |-> ps.noAppend]
     ELSE /\ pass' = [pass EXCEPT ![p] =
                        [done EXCEPT !.pc = "find", !.gi = @ + 1, !.mi = 0,
                                     !.existing = 0, !.recId = 0]]
          /\ result' = NoResults
          /\ UNCHANGED lastRun

\* getEventsGroupedByCallId succeeds: the query, then the grouping of its
\* records
NodeFetch(p) ==
  /\ pass[p].pc = "idle"
  /\ \E u \in {getUnprocessedEvents(events)} : \E g \in {NodeGroup(u)} :
        IF g = <<>>
        THEN /\ result' = [NoResults EXCEPT ![p] = Returned(0, 0, 0)]
             /\ UNCHANGED <<pass, lastRun>>
        ELSE /\ pass' = [pass EXCEPT ![p] =
                           [IdlePass EXCEPT !.pc = "find", !.impl = "node",
                              !.groups = g, !.gi = 1, !.noAppend = TRUE,
                              !.all = (Len(Unprocessed(events)) <= PageSize)]]
             /\ lastRun' = NoLast
             /\ result' = NoResults
  /\ UNCHANGED <<events, calls, grp, streamVars, out>>

\* getEventsGroupedByCallId throws: processUnprocessedEvents rethrows
NodeFetchFail(p) ==
  /\ pass[p].pc = "idle"
  /\ result' = [NoResults EXCEPT ![p] = Threw]
  /\ UNCHANGED <<events, calls, pass, lastRun, grp, streamVars, out>>

\* mergeCallEvents up to findByTelebroadCallId
NodeFind(p) ==
  /\ pass[p].pc = "find" /\ pass[p].impl = "node"
  /\ \E id \in findByTelebroadId(calls, Group(pass[p]).key) :
       pass' = [pass EXCEPT ![p].pc = "upsert", ![p].existing = id]
  /\ result' = NoResults
  /\ UNCHANGED <<events, calls, lastRun, grp, streamVars, out>>

\* mergeCallEvents after the lookup: the sort, extractCallData, then
\* updateCall or createCall
NodeUpsert(p) ==
  /\ pass[p].pc = "upsert" /\ pass[p].impl = "node"
  /\ \E ps \in {pass[p]} : \E sorted \in {NodeSort(Group(ps).evs)} :
     \E d \in {extractCallData(sorted)} :
        IF ps.existing # 0
        THEN /\ calls' = [calls EXCEPT ![ps.existing] = updateCall(@, d)]
             /\ pass' = [pass EXCEPT ![p].pc = "mark", ![p].recId = ps.existing,
                                     ![p].updated = @ + 1]
        ELSE /\ Len(calls) < MaxCalls
             /\ calls' = Append(calls, createCall(d))
             /\ pass' = [pass EXCEPT ![p].pc = "mark", ![p].recId = Len(calls) + 1,
                                     ![p].created = @ + 1]
  /\ result' = NoResults
  /\ UNCHANGED <<events, lastRun, grp, streamVars, out>>

\* markMultipleAsProcessed: one update per batch of BatchLimit ids
NodeMark(p) ==
  /\ pass[p].pc = "mark" /\ pass[p].impl = "node"
  /\ LET ps == pass[p]
         evs == Group(ps).evs
         upto == IF ps.mi + BatchLimit < Len(evs) THEN ps.mi + BatchLimit ELSE Len(evs)
         ids == {evs[i].id : i \in (ps.mi + 1)..upto}
     IN /\ events' = MarkBatch(events, ids, ps.recId)
        /\ IF upto < Len(evs)
           THEN /\ pass' = [pass EXCEPT ![p].mi = upto]
                /\ result' = NoResults
                /\ UNCHANGED lastRun
           ELSE NodeAdvance(p, ps, "ok")
  /\ UNCHANGED <<calls, grp, streamVars, out>>

\* a store call of the loop body throws: the catch logs and the loop goes on
NodeGroupFail(p) ==
  /\ pass[p].pc \in {"find", "upsert", "mark"} /\ pass[p].impl = "node"
  /\ UNCHANGED <<events, calls, grp, streamVars, out>>
  /\ NodeAdvance(p, pass[p], pass[p].pc)

\* the process is stopped during a run
Stop(p) ==
  /\ pass[p].pc # "idle"
  /\ pass' = [pass EXCEPT ![p] = IdlePass]
  /\ result' = NoResults
  /\ UNCHANGED <<events, calls, lastRun, grp, streamVars, out>>

(***************************************************************************)
(* mergeWebhookEvents (Apps Script), cut at its store calls. One try/catch *)
(* holds the whole function: a store call that throws ends the merge.      *)
(***************************************************************************)
GasData(g) == GasCallData(g.key, g.evs)

\* getUnprocessedEvents and groupByCallId; with no group the function ends
\* having changed nothing
GasFetch(p) ==
  /\ pass[p].pc = "idle"
  /\ LET g == groupByCallId(GasUnprocessedEvents(events))
     IN /\ g # <<>>
        /\ pass' = [pass EXCEPT ![p] =
                      [IdlePass EXCEPT !.pc = "find", !.impl = "gas",
                         !.groups = g, !.gi = 1, !.noAppend = TRUE,
                         !.all = (Len(Unprocessed(events)) <= PageSize)]]
  /\ lastRun' = NoLast
  /\ result' = NoResults
  /\ UNCHANGED <<events, calls, grp, streamVars, out>>

\* processCallEvents up to findCallByTBId
GasFind(p) ==
  /\ pass[p].pc = "find" /\ pass[p].impl = "gas"
  /\ pass' = [pass EXCEPT ![p].pc = "upsert",
                          ![p].existing = findCallByTBId(calls, Group(pass[p]).key)]
  /\ result' = NoResults
  /\ UNCHANGED <<events, calls, lastRun, grp, streamVars, out>>

\* updateRecord or createRecord of the call
GasUpsert(p) ==
  /\ pass[p].pc = "upsert" /\ pass[p].impl = "gas"
  /\ LET ps == pass[p]
         d == GasData(Group(ps))
     IN IF ps.existing # 0
        THEN /\ calls' = [calls EXCEPT ![ps.existing] = GasUpdate(@, d)]
             /\ pass' = [pass EXCEPT ![p].pc = "mark", ![p].recId = ps.existing]
        ELSE /\ Len(calls) < MaxCalls
             /\ calls' = Append(calls, GasCreate(d))
             /\ pass' = [pass EXCEPT ![p].pc = "mark", ![p].recId = Len(calls) + 1]
  /\ result' = NoResults
  /\ UNCHANGED <<events, lastRun, grp, streamVars, out>>

\* events.forEach(updateRecord(WEBHOOK_EVENTS, e.id, {Processed: true})): one
\* event of the sorted group; after the last one, the next group or the end
GasMark(p) ==
  /\ pass[p].pc = "mark" /\ pass[p].impl = "gas"
  /\ LET ps == pass[p]
         evs == GasSort(Group(ps).evs)
         done == [ps EXCEPT !.log = Append(@, [how |-> "ok", marked |-> TRUE])]
     IN /\ events' = [events EXCEPT ![evs[ps.mi + 1].id].processed = TRUE]
        /\ IF ps.mi + 1 < Len(evs)
           THEN /\ pass' = [pass EXCEPT ![p].mi = @ + 1]
                /\ UNCHANGED lastRun
           ELSE IF ps.gi < Len(ps.groups)
           THEN /\ pass' = [pass EXCEPT ![p] =
                              [done EXCEPT !.pc = "find", !.gi = @ + 1, !.mi = 0,
                                           !.existing = 0, !.recId = 0]]
                /\ UNCHANGED lastRun
           ELSE /\ pass' = [pass EXCEPT ![p] = IdlePass]
                /\ lastRun' = [impl |-> "gas", log |-> done.log,
                            groups |-> Len(ps.groups),
                            all |-> ps.all, quiet |-> ps.noAppend]
  /\ result' = NoResults
  /\ UNCHANGED <<calls, grp, streamVars, out>>

\* a store call throws: the catch of mergeWebhookEvents logs, the function
\* ends, the groups not reached yet are left
GasFail(p) ==
  /\ pass[p].pc \in {"find", "upsert", "mark"} /\ pass[p].impl = "gas"
  /\ LET ps == pass[p]
     IN lastRun' = [impl |-> "gas",
                 log |-> Append(ps.log, [how |-> ps.pc, marked |-> ps.mi > 0]),
                 groups |-> Len(ps.groups),
                 all |-> ps.all, quiet |-> ps.noAppend]
  /\ pass' = [pass EXCEPT ![p] = IdlePass]
  /\ result' = NoResults
  /\ UNCHANGED <<events, calls, grp, streamVars, out>>

GasRun(p) ==
  \/ GasFetch(p)
  \/ GasFind(p)
  \/ GasUpsert(p)
  \/ GasMark(p)
  \/ GasFail(p)

NodeRun(p) ==
  \/ NodeFetch(p)
  \/ NodeFetchFail(p)
  \/ NodeFind(p)
  \/ NodeUpsert(p)
  \/ NodeMark(p)
  \/ NodeGroupFail(p)

\* the Node merger, one run at a time
Next ==
  \/ Receive
  \/ Import
  \/ NodeRun("A")
  \/ Stop("A")

Spec == Init /\ [][Next]_vars

\* the Node merger and the Apps Script merge on the same base, one run at a
\* time, every event with a Call ID, the store answering every query for
\* unprocessed events
NextBoth ==
  \/ Receive
  \/ NodeFetch("A")
  \/ NodeFind("A")
  \/ NodeUpsert("A")
  \/ NodeMark("A")
  \/ NodeGroupFail("A")
  \/ GasRun("A")
  \/ Stop("A")

SpecBoth == Init /\ [][NextBoth]_vars

\* the Node merger, and the query and grouping of the Apps Script merge
NextGroup ==
  \/ Next
  \/ GasFetch("A")

SpecGroup == Init /\ [][NextGroup]_vars

\* two runs of the Node merger at the same time (two schedulers, or a run
\* started before the former one returned), their store calls interleaved
NextOverlap ==
  \/ Receive
  \/ \E p \in Passes :
       \/ NodeFetch(p)
       \/ NodeFind(p)
       \/ NodeUpsert(p)
       \/ NodeMark(p)

SpecOverlap == Init /\ [][NextOverlap]_vars

\* the Node merger run again and again, one run at a time, on events that
\* carry a Call ID; a store call may fail, and no store call for a call
\* fails forever
NextFair ==
  \/ Receive
  \/ NodeFetch("A")
  \/ NodeFind("A")
  \/ NodeUpsert("A")
  \/ NodeMark("A")
  \/ NodeGroupFail("A")

\* a step of the run on the group of call c
FairStep(c, A) == pass["A"].pc # "idle" /\ Group(pass["A"]).key = c /\ A

SpecFair ==
  /\ Init /\ [][NextFair]_vars
  /\ WF_vars(NodeFetch("A"))
  /\ \A c \in CallIds :
       /\ SF_vars(FairStep(c, NodeFind("A")))
       /\ SF_vars(FairStep(c, NodeUpsert("A")))
       /\ SF_vars(FairStep(c, NodeMark("A")))

(***************************************************************************)
(* The extraction rules applied to event groups: every group of one call   *)
(* of up to MaxGroup webhooks of the catalogue, in arrival order.          *)
(***************************************************************************)
ExtractGroups == UNION {[1..n -> ExtractKinds] : n \in 1..MaxGroup}
GroupOf(ks) == [i \in 1..Len(ks) |-> createEvent(i, "c1", Webhooks[ks[i]])]

InitExtract ==
  /\ events = <<>>
  /\ calls = <<>>
  /\ pass = [p \in Passes |-> IdlePass]
  /\ result = NoResults
  /\ lastRun = NoLast
  /\ grp \in {GroupOf(ks) : ks \in ExtractGroups}
  /\ StreamIdle
  /\ out = NoOut

\* one implementation computes the call data of the group
NodeExtract ==
  /\ out = NoOut
  /\ out' = [impl |-> "node", data |-> NodeCallData([key |-> "c1", evs |-> grp])]
  /\ UNCHANGED <<events, calls, pass, result, lastRun, grp, streamVars>>

GasExtract ==
  /\ out = NoOut
  /\ out' = [impl |-> "gas", data |-> GasCallData("c1", grp)]
  /\ UNCHANGED <<events, calls, pass, result, lastRun, grp, streamVars>>

ScriptExtract ==
  /\ out = NoOut
  /\ out' = [impl |-> "script", data |-> ScriptCallData(grp)]
  /\ UNCHANGED <<events, calls, pass, result, lastRun, grp, streamVars>>

StreamExtract ==
  /\ out = NoOut
  /\ out' = [impl |-> "stream", data |-> StreamSaved(grp)]
  /\ UNCHANGED <<events, calls, pass, result, lastRun, grp, streamVars>>

NextExtract ==
  \/ NodeExtract
  \/ GasExtract
  \/ ScriptExtract
  \/ StreamExtract

SpecExtract == InitExtract /\ [][NextExtract]_vars

(***************************************************************************)
(* The sort of a group before the extraction: groups of up to MaxSortGroup *)
(* events of one call in arrival order, of which any may have reached the  *)
(* staging table without 'Start Time' (createEvent stores what the webhook *)
(* carries).                                                               *)
(***************************************************************************)
MaxSortGroup == 3

SortKinds == {1, 2, 5, 7}
SortGroups ==
  UNION {[1..n -> SortKinds \X BOOLEAN] : n \in 1..MaxSortGroup}
\* ks[i] = <<webhook, whether it carries startTime>>
SortGroupOf(ks) ==
  [i \in 1..Len(ks) |->
     createEvent(i, "c1",
       IF ks[i][2] THEN Webhooks[ks[i][1]]
       ELSE [Webhooks[ks[i][1]] EXCEPT !.startTime = 0])]

InitSort ==
  /\ events = <<>>
  /\ calls = <<>>
  /\ pass = [p \in Passes |-> IdlePass]
  /\ result = NoResults
  /\ lastRun = NoLast
  /\ grp \in {SortGroupOf(ks) : ks \in SortGroups}
  /\ StreamIdle
  /\ out = NoOut

\* events.sort of mergeCallEvents
NodeSorted ==
  /\ out = NoOut
  /\ out' = [impl |-> "node sort", data |-> NodeSort(grp)]
  /\ UNCHANGED <<events, calls, pass, result, lastRun, grp, streamVars>>

\* events.sort of processCallEvents
GasSorted ==
  /\ out = NoOut
  /\ out' = [impl |-> "gas sort", data |-> GasSort(grp)]
  /\ UNCHANGED <<events, calls, pass, result, lastRun, grp, streamVars>>

NextSort ==
  \/ NodeSorted
  \/ GasSorted

SpecSort == InitSort /\ [][NextSort]_vars

(***************************************************************************)
(* The mark step on groups of up to MaxMarkGroup events, more than one     *)
(* batch of the store included: a run that has found one call whose events *)
(* are all on the page (a caller sent from IVR node to IVR node), has      *)
(* created the record of the call and is about to mark the events.         *)
(***************************************************************************)
MaxMarkGroup == 12

MarkRows(c, n) ==
  [i \in 1..n |-> createEvent(i, c, IF i = 1 THEN Webhooks[1] ELSE Webhooks[5])]

AtMark(impl, rows) ==
  [IdlePass EXCEPT !.pc = "mark", !.impl = impl,
                   !.groups = <<[key |-> rows[1].callId, evs |-> rows]>>,
                   !.gi = 1, !.recId = 1,
                   !.created = IF impl = "node" THEN 1 ELSE 0,
                   !.noAppend = TRUE, !.all = TRUE]

InitMark ==
  \E c \in CallIds, n \in 1..MaxMarkGroup, impl \in {"node", "gas"} :
    /\ events = MarkRows(c, n)
    /\ calls = IF impl = "node"
               THEN <<createCall(NodeCallData([key |-> c, evs |-> MarkRows(c, n)]))>>
               ELSE <<GasCreate(GasData([key |-> c, evs |-> MarkRows(c, n)]))>>
    /\ pass = [p \in Passes |->
                IF p = "A" THEN AtMark(impl, MarkRows(c, n)) ELSE IdlePass]
    /\ result = NoResults
    /\ lastRun = NoLast
    /\ grp = <<>>
    /\ StreamIdle
    /\ out = NoOut

NextMark ==
  \/ NodeMark("A")
  \/ NodeGroupFail("A")
  \/ GasMark("A")
  \/ GasFail("A")
  \/ Stop("A")

SpecMark == InitMark /\ [][NextMark]_vars

(***************************************************************************)
(* extractCallData of the Node merger applied to every group of up to      *)
(* MaxGroup webhooks of the catalogue, the group without events included.  *)
(***************************************************************************)
InitNodeExtract ==
  /\ events = <<>>
  /\ calls = <<>>
  /\ pass = [p \in Passes |-> IdlePass]
  /\ result = NoResults
  /\ lastRun = NoLast
  /\ grp \in {GroupOf(ks) : ks \in ExtractGroups \cup {<<>>}}
  /\ StreamIdle
  /\ out = NoOut

SpecNodeExtract == InitNodeExtract /\ [][NodeExtract]_vars

(***************************************************************************)
(* The extraction rules applied to routes through the IVR: groups of up to *)
(* MaxVisits legs of one call, each leg later than the one before it, to   *)
(* the IVR nodes "A" and "B", to an IVR node without a name, or to a hunt  *)
(* group.                                                                  *)
(***************************************************************************)
MaxVisits == 4

Visits == <<[destinationType |-> "ivr", destinationName |-> "A"],
            [destinationType |-> "ivr", destinationName |-> "B"],
            [destinationType |-> "ivr", destinationName |-> ""],
            [destinationType |-> "huntgroup", destinationName |-> "A"]>>

\* the leg Webhooks[5] (ringing, sent by an IVR node) with the destination
\* of the visit, at second t
VisitLeg(v, t) ==
  [Webhooks[5] EXCEPT !.destinationType = v.destinationType,
                      !.destinationName = v.destinationName,
                      !.startTime = t]

VisitGroups == UNION {[1..n -> 1..Len(Visits)] : n \in 1..MaxVisits}
VisitGroupOf(ks) ==
  [i \in 1..Len(ks) |-> createEvent(i, "c1", VisitLeg(Visits[ks[i]], i))]

InitIvr ==
  /\ events = <<>>
  /\ calls = <<>>
  /\ pass = [p \in Passes |-> IdlePass]
  /\ result = NoResults
  /\ lastRun = NoLast
  /\ grp \in {VisitGroupOf(ks) : ks \in VisitGroups}
  /\ StreamIdle
  /\ out = NoOut

SpecIvr == InitIvr /\ [][NextExtract]_vars

(***************************************************************************)
(* The extraction rules applied to the sample call of                      *)
(* scripts/test-telebroad-webhook.js (call 1765829443.779816): its seven   *)
(* webhooks, arrived in any order. The 'ended' webhook of the caller's leg *)
(* carries the start time of the call.                                     *)
(***************************************************************************)
SampleCall == <<
  Webhooks[1],
  Webhooks[5],
  Wh("ringing", "incoming", "ivr", "discuss something", "57882",
     "ivr", "before connecting", "57964", 25),
  Webhooks[4],
  Webhooks[6],
  Webhooks[2],
  Webhooks[3]
>>

SampleOrders ==
  {f \in [1..Len(SampleCall) -> 1..Len(SampleCall)] :
     \A i, j \in 1..Len(SampleCall) : f[i] = f[j] => i = j}
SampleGroupOf(f) ==
  [i \in 1..Len(SampleCall) |-> createEvent(i, "c1", SampleCall[f[i]])]
\* the webhooks in the order of the file
SampleGroup == SampleGroupOf([i \in 1..Len(SampleCall) |-> i])

InitSample ==
  /\ events = <<>>
  /\ calls = <<>>
  /\ pass = [p \in Passes |-> IdlePass]
  /\ result = NoResults
  /\ lastRun = NoLast
  /\ grp \in {SampleGroupOf(f) : f \in SampleOrders}
  /\ StreamIdle
  /\ out = NoOut

SpecSample == InitSample /\ [][NextExtract]_vars

(***************************************************************************)
(* The webhook receiver, webhooks/telebroad-webhook-receiver.js: the       *)
(* payloads of SpecReceive are the webhooks of a call with a callId or     *)
(* without, and with status or direction left out. out holds the payload   *)
(* and the value the handler returned for it.                              *)
(***************************************************************************)
ReceiveKinds == {1, 2, 3}
Blankable == {"status", "direction"}
\* the payload: webhook k for call c, the fields of miss absent
webhookData(c, k, miss) ==
  [f \in DOMAIN Webhooks[k] \cup {"callId"} |->
     IF f = "callId" THEN c
     ELSE IF f \in miss THEN ""
     ELSE Webhooks[k][f]]

\* a validation that does not look at direction
validateWithoutDirection(d) ==
  (IF d.callId = "" THEN <<"Missing callId">> ELSE <<>>)
  \o (IF d.status = "" THEN <<"Missing status">> ELSE <<>>)

\* validateWebhookData: the errors array; valid when it is empty
validateWebhookData(d) ==
  (IF d.callId = "" THEN <<"Missing callId">> ELSE <<>>)
  \o (IF d.status = "" THEN <<"Missing status">> ELSE <<>>)
  \o (IF d.direction = "" THEN <<"Missing direction">> ELSE <<>>)

Response(d, r) == [impl |-> "receiver", webhook |-> d, response |-> r]

\* handleWebhookWithValidation, validation fails: nothing is saved
ReceiveInvalid ==
  \E c \in CallIds \cup {NoCallId}, k \in ReceiveKinds, miss \in SUBSET Blankable :
    \E d \in {webhookData(c, k, miss)} :
      /\ validateWebhookData(d) # <<>>
      /\ out' = Response(d, [success |-> FALSE, errors |-> validateWebhookData(d)])
      /\ UNCHANGED <<events, calls, pass, result, lastRun, grp, streamVars>>

\* handleTelebroadWebhook, createEvent returns the saved row
ReceiveSaved ==
  \E c \in CallIds \cup {NoCallId}, k \in ReceiveKinds, miss \in SUBSET Blankable :
    \E d \in {webhookData(c, k, miss)} :
      /\ validateWebhookData(d) = <<>>
      /\ Len(events) < MaxEvents
      /\ events' = Append(events, createEvent(Len(events) + 1, d.callId, d))
      /\ out' = Response(d, [success |-> TRUE, eventId |-> Len(events) + 1,
                             callId |-> d.callId, status |-> d.status])
      /\ pass' = [p \in Passes |-> [pass[p] EXCEPT !.noAppend = FALSE]]
      /\ lastRun' = NoLast
      /\ result' = NoResults
      /\ UNCHANGED <<calls, grp, streamVars>>

\* handleTelebroadWebhook, the store's create throws: createEvent rethrows
\* and the handler returns the error
ReceiveStoreFail ==
  \E c \in CallIds \cup {NoCallId}, k \in ReceiveKinds, miss \in SUBSET Blankable :
    \E d \in {webhookData(c, k, miss)} :
      /\ validateWebhookData(d) = <<>>
      /\ out' = Response(d, [success |-> FALSE,
                             error |-> "Failed to create webhook event",
                             callId |-> d.callId])
      /\ UNCHANGED <<events, calls, pass, result, lastRun, grp, streamVars>>

NextReceive ==
  \/ ReceiveInvalid
  \/ ReceiveSaved
  \/ ReceiveStoreFail

SpecReceive == Init /\ [][NextReceive]_vars

(***************************************************************************)
(* The webhooks of one call delivered in time order, the last one the end  *)
(* of the caller's leg: the groups of SpecAgree. The end carries the start *)
(* time of the call, as in the sample call, or the time the call ended.    *)
(***************************************************************************)
EndedAtEnd ==
  Wh("ended", "incoming", "external", "18455021115", "18455021115",
     "ivr", "Day", "57880", 60)
CallEnds == {Webhooks[3], EndedAtEnd}
InTimeOrder(ws) == \A i \in 1..(Len(ws) - 1) : ws[i].startTime <= ws[i + 1].startTime
\* no end of the caller's leg before the last webhook
EndsOnce(ws) == \A i \in 1..(Len(ws) - 1) : ~IsEndedFromExternal(ws[i])
AgreeCalls ==
  {ws \in {[i \in 1..Len(ks) |-> Webhooks[ks[i]]] \o <<w>> :
             ks \in UNION {[1..n -> ExtractKinds] : n \in 0..(MaxGroup - 1)},
             w \in CallEnds} :
     InTimeOrder(ws) /\ EndsOnce(ws)}
AgreeGroupOf(ws) == [i \in 1..Len(ws) |-> createEvent(i, "c1", ws[i])]

InitAgree ==
  /\ events = <<>>
  /\ calls = <<>>
  /\ pass = [p \in Passes |-> IdlePass]
  /\ result = NoResults
  /\ lastRun = NoLast
  /\ grp \in {AgreeGroupOf(ws) : ws \in AgreeCalls}
  /\ StreamIdle
  /\ out = NoOut

NextAgree ==
  \/ NodeExtract
  \/ StreamExtract

SpecAgree == InitAgree /\ [][NextAgree]_vars

(***************************************************************************)
(* The streaming handler as a process (webhooks/telebroad-handler.js),     *)
(* cut at the await of saveCallToAirtable: requests are served while a     *)
(* save is under way. callData holds the objects createInitialCallData     *)
(* made, callCache the object of each call id (0: no entry), saving the    *)
(* object each caller of saveCallToAirtable passed to it. The lookups of a *)
(* save are taken together with its write. updateTeamMemberStatus is left  *)
(* out: it does not touch the cache. out holds the number of webhooks      *)
(* received, the last webhook, and the value the last step returned.       *)
(***************************************************************************)
MaxWebhooks == 3    \* webhooks the handler receives
MaxClock == 400     \* the clock stops here
\* CACHE_TIMEOUT_MS, in seconds
CACHE_TIMEOUT == 300
\* the webhooks the handler receives: ringing at the IVR, and the end of the
\* caller's leg
StreamKinds == {1, 3}

\* callCache.clear()
CacheClear(cache, c) == [k \in CallIds |-> 0]

\* callCache.delete(callId)
CacheDelete(cache, c) == [cache EXCEPT ![c] = 0]

\* updateCall(existingCall.id, airtableData): answeredBy, answeredByExtension
\* and answerTime are null when nobody answered, and null is written;
\* duration is set only with both times
updateCallFromStream(r, cd) ==
  LET d == airtableData(cd)
  IN [updateCall(r, d) EXCEPT
        !.pickedUpByName = d.pickedUpByName,
        !.pickedUpByExtension = d.pickedUpByExtension,
        !.answerTime = d.answerTime,
        !.duration = IF cd.answerTime # 0 /\ cd.endTime # 0 THEN d.duration
                     ELSE r.duration]

Returns(n, w, who, r) ==
  [impl |-> "streaming", n |-> n, webhook |-> w, of |-> who, response |-> r]

InitStream ==
  /\ events = <<>>
  /\ calls = <<>>
  /\ pass = [p \in Passes |-> IdlePass]
  /\ result = NoResults
  /\ lastRun = NoLast
  /\ grp = <<>>
  /\ StreamIdle
  /\ out = Returns(0, <<>>, "", <<>>)

\* callCache.get(callId), createInitialCallData and callCache.set without an
\* entry, then updateCallData
PutWebhook(c, w) ==
  IF callCache[c] = 0
  THEN /\ callData' = Append(callData, updateCallData(createInitialCallData(w), w))
       /\ callCache' = [callCache EXCEPT ![c] = Len(callData) + 1]
  ELSE /\ callData' = [callData EXCEPT ![callCache[c]] = updateCallData(@, w)]
       /\ UNCHANGED callCache

\* handleTelebroadWebhook without callId
StreamMissingCallId ==
  \E k \in StreamKinds : \E w \in {webhookData(NoCallId, k, {})} :
    /\ out.n < MaxWebhooks
    /\ out' = Returns(out.n + 1, w, "webhook",
                      <<[success |-> FALSE, error |-> "Missing callId"]>>)
    /\ UNCHANGED <<events, calls, pass, result, lastRun, grp, streamVars>>

\* handleTelebroadWebhook, a webhook that is not the end of the caller's leg
StreamWebhook ==
  \E c \in CallIds, k \in StreamKinds : \E w \in {webhookData(c, k, {})} :
    /\ out.n < MaxWebhooks
    /\ ~IsEndedFromExternal(w)
    /\ PutWebhook(c, w)
    /\ out' = Returns(out.n + 1, w, "webhook",
                      <<[success |-> TRUE, callId |-> c, status |-> "processing",
                         eventsReceived |-> callData'[callCache'[c]].webhookEvents,
                         currentStatus |-> w.status]>>)
    /\ UNCHANGED <<events, calls, pass, result, lastRun, grp, saving, now>>

\* handleTelebroadWebhook, the end of the caller's leg, up to the await of
\* saveCallToAirtable(callData). The requests are alike: h2 stands for a
\* request that comes while h1 is saving.
StreamEnded(h) ==
  \E c \in CallIds, k \in StreamKinds : \E w \in {webhookData(c, k, {})} :
    /\ out.n < MaxWebhooks
    /\ IsEndedFromExternal(w)
    /\ saving[h] = 0
    /\ h = "h2" => saving["h1"] # 0
    /\ PutWebhook(c, w)
    /\ saving' = [saving EXCEPT ![h] = callCache'[c]]
    /\ out' = Returns(out.n + 1, w, "webhook", <<>>)
    /\ UNCHANGED <<events, calls, pass, result, lastRun, grp, now>>

\* saveCallToAirtable resolves: the record is written from the object as it
\* is now, then callCache.delete(callId)
SaveDone(h) ==
  /\ saving[h] # 0
  /\ \E cd \in {callData[saving[h]]} :
       /\ \E id \in findByTelebroadId(calls, cd.callId) :
            IF id # 0
            THEN calls' = [calls EXCEPT ![id] = updateCallFromStream(@, cd)]
            ELSE /\ Len(calls) < MaxCalls
                 /\ calls' = Append(calls, createCall(airtableData(cd)))
       /\ callCache' = CacheDelete(callCache, cd.callId)
       /\ out' = Returns(out.n, out.webhook, h,
                         <<[success |-> TRUE, telebroadCallId |-> cd.callId,
                            finalStatus |-> cd.finalStatus]>>)
  /\ saving' = [saving EXCEPT ![h] = 0]
  /\ UNCHANGED <<events, pass, result, lastRun, grp, callData, now>>

\* saveCallToAirtable throws: the catch returns (or, in flushStaleCalls,
\* logs) the error, the entry stays
SaveThrows(h) ==
  /\ saving[h] # 0
  /\ saving' = [saving EXCEPT ![h] = 0]
  /\ out' = Returns(out.n, out.webhook, h,
                    <<[success |-> FALSE, error |-> "Failed to save call"]>>)
  /\ UNCHANGED <<events, calls, pass, result, lastRun, grp, callCache, callData, now>>

\* flushStaleCalls, one entry of the loop up to the await of the save. The
\* entries are taken in any order.
FlushStale ==
  \E c \in CallIds :
    /\ saving["flush"] = 0
    /\ callCache[c] # 0
    /\ now - callData[callCache[c]].callStartTime > CACHE_TIMEOUT
    /\ callData' = [callData EXCEPT ![callCache[c]].finalStatus =
                      IF callData[callCache[c]].wasAnswered
                      THEN "Answered" ELSE "Abandoned"]
    /\ saving' = [saving EXCEPT !["flush"] = callCache[c]]
    /\ UNCHANGED <<events, calls, pass, result, lastRun, grp, out, callCache, now>>

\* time passes
Tick ==
  /\ now + CACHE_TIMEOUT <= MaxClock
  /\ now' = now + CACHE_TIMEOUT
  /\ UNCHANGED <<events, calls, pass, result, lastRun, grp, out,
                 callCache, callData, saving>>

NextStream ==
  \/ StreamMissingCallId
  \/ StreamWebhook
  \/ \E h \in Handlers : StreamEnded(h)
  \/ \E h \in Savers : SaveDone(h)
  \/ \E h \in Savers : SaveThrows(h)
  \/ FlushStale
  \/ Tick

SpecStream == InitStream /\ [][NextStream]_vars

(***************************************************************************)
(* Properties.                                                             *)
(***************************************************************************)
GrpAnswered == \E i \in 1..Len(grp) : IsAnsweredByPhone(grp[i])
GrpHuntGroup == \E i \in 1..Len(grp) : IsHuntGroupLeg(grp[i])
GrpIvr == \E i \in 1..Len(grp) :
             grp[i].destinationType = "ivr" /\ grp[i].destinationName # ""

\* C9: extractCallData sets finalStatus by the first matching row: Answered
\* if some event is answered with destination type phone; else Missed if
\* the group has a hunt-group leg; else IVR Only if the group has a named IVR
\* leg; else Abandoned.
C9_DispositionPrecedence ==
  out.impl = "node" =>
    out.data.finalStatus =
      IF GrpAnswered THEN "Answered"
      ELSE IF GrpHuntGroup THEN "Missed"
      ELSE IF GrpIvr THEN "IVR Only"
      ELSE "Abandoned"

\* the case of C9 that fails: an unanswered group whose first hunt-group leg
\* carries no name gets the status of a call that reached no hunt group
C9_UnnamedHuntGroup ==
  /\ out.impl = "node"
  /\ GrpHuntGroup /\ ~GrpAnswered
  /\ out.data.finalStatus \in {"IVR Only", "Abandoned"}

Received(dir) == IF dir = "incoming" THEN "Inbound" ELSE "Outbound"

\* C10: in every implementation the stored direction is the direction as
\* received (Inbound for incoming, Outbound for outgoing) when the group has
\* an answered-by-phone event, and Missed in every other case.
C10_Direction ==
  out.impl # "none" =>
    IF GrpAnswered
    THEN \E i \in 1..Len(grp) : out.data.direction = Received(grp[i].direction)
    ELSE out.data.direction = "Missed"

\* the cases of C10 that fail: the streaming handler saves a call nobody
\* answered, that reached no hunt group, with the direction as received;
\* the Apps Script merge and the automation script save an answered
\* outgoing call as Inbound
C10_StreamKeepsDirection ==
  /\ out.impl = "stream" /\ ~GrpAnswered
  /\ out.data.finalStatus \in {"IVR Only", "Abandoned"}
  /\ out.data.direction = "Inbound"

\* a completed Node run in which every group succeeded, no event appended
\* since the run read the staging table
CleanRun ==
  /\ lastRun.impl = "node"
  /\ \A i \in 1..Len(lastRun.log) : lastRun.log[i].how = "ok"
  /\ lastRun.quiet

\* C1: after a run of processUnprocessedEvents in which every group
\* succeeded, and with no event appended, a further run finds zero groups
\* (it returns processed = created = updated = 0 and starts no merge),
\* creates no call record and changes no field of any record.
C1_SecondRunFindsNothing ==
  [][(CleanRun /\ Len(events') = Len(events))
       => /\ pass' = pass
          /\ calls' = calls
          /\ events' = events
          /\ (result'["A"].status = "returned" => result'["A"] = Returned(0, 0, 0))]_vars

\* the case of C1 that fails: every group of the run succeeded and events
\* the query did not return are still unprocessed
C1_EventsLeftAfterCleanRun ==
  /\ CleanRun
  /\ ~lastRun.all
  /\ Unprocessed(events) # <<>>

RecordsOf(tbl, c) == {i \in 1..Len(tbl) : tbl[i].tbCallId = c}

\* C2: with one pass at a time, a merge for a callId that has a call record
\* updates that record (counted as updated, same record id) and creates
\* none; there is at most one record per callId, and the callId of a record
\* never changes.
C2_UpsertOnCallId ==
  [][/\ Len(calls') >= Len(calls)
     /\ \A i \in 1..Len(calls) : calls'[i].tbCallId = calls[i].tbCallId
     /\ \A c \in CallIds : Cardinality(RecordsOf(calls', c)) <= 1
     /\ \A p \in Passes :
          (/\ pass[p].pc = "upsert" /\ pass'[p].pc = "mark"
           /\ RecordsOf(calls, Group(pass[p]).key) # {})
            => /\ Len(calls') = Len(calls)
               /\ pass'[p].recId \in RecordsOf(calls, Group(pass[p]).key)
               /\ pass'[p].updated = pass[p].updated + 1
               /\ pass'[p].created = pass[p].created]_vars

\* a run has updated the record of a call a former run created
C2_RecordUpdated ==
  /\ pass["A"].pc = "mark" /\ pass["A"].updated = 1
  /\ Group(pass["A"]).key \in CallIds
  /\ Cardinality(RecordsOf(calls, Group(pass["A"]).key)) = 1

\* the events of the call of group g that are merged by now: the group and
\* the events of the call processed before
MergedEvents(g) ==
  SelectSeq(events, LAMBDA e :
    /\ e.callId = g.key
    /\ (e.processed \/ \E j \in 1..Len(g.evs) : g.evs[j].id = e.id))

\* C8: after the merge of late events of a call that has a record, the
\* stored finalStatus is the classification of all events of the call,
\* those consumed before included; an Answered call stays Answered after a
\* late 'ended' event.
C8_RecomputedOnAllEvents ==
  \A p \in Passes :
    (pass[p].pc = "mark" /\ pass[p].impl = "node" /\ Group(pass[p]).key \in CallIds)
      => calls[pass[p].recId].finalStatus =
           extractCallData(NodeSort(MergedEvents(Group(pass[p])))).finalStatus

\* the case of C8 that fails: a call with a consumed answered-by-phone event
\* whose record is not Answered
C8_AnsweredCallDowngraded ==
  \E i \in 1..Len(calls) :
    /\ calls[i].finalStatus # "Answered"
    /\ \E j \in 1..Len(events) :
         /\ events[j].callId = calls[i].tbCallId
         /\ events[j].processed
         /\ IsAnsweredByPhone(events[j])

\* the events a step marks Processed
NewlyMarked == {i \in 1..Len(events) : events'[i].processed /\ ~events[i].processed}

C4_Inv ==
  \A i \in 1..Len(events) :
    events[i].processed =>
      /\ RecordsOf(calls, events[i].callId) # {}
      /\ events[i].mergedCallRecord # 0 =>
           events[i].mergedCallRecord \in RecordsOf(calls, events[i].callId)

C4_Step ==
  \A i \in NewlyMarked :
    \E p \in Passes :
      /\ pass[p].pc = "mark"
      /\ Group(pass[p]).key = events[i].callId
      /\ pass[p].recId \in RecordsOf(calls, events[i].callId)
      /\ events'[i].mergedCallRecord \in {0, pass[p].recId}
      /\ calls' = calls

\* C4: an event is marked Processed (and linked) only by a pass that has
\* created or updated the call record of the event's callId before, in the
\* same run; in no reachable state is an event consumed while no call record
\* for its callId exists.
C4_MarkedAfterUpsert == []C4_Inv /\ [][C4_Step]_vars

\* events of a call consumed by the Node merger and by the Apps Script merge
C4_ConsumedByBoth ==
  \E i, j \in 1..Len(events) :
    /\ events[i].processed /\ events[i].mergedCallRecord # 0
    /\ events[j].processed /\ events[j].mergedCallRecord = 0

\* C5: when the lookup, create or update of the call record fails for one
\* callId during a pass, none of that call's events is marked by then, and
\* every other group of the batch is still gone through to its end.
C5_FailureIsolation ==
  \A i \in 1..Len(lastRun.log) :
    lastRun.log[i].how \in {"find", "upsert"} =>
      /\ ~lastRun.log[i].marked
      /\ Len(lastRun.log) = lastRun.groups

\* the case of C5 that fails: a run of the Apps Script merge that ended at
\* the failure of one group and left the groups after it
C5_GroupsLeftAfterFailure ==
  /\ lastRun.impl = "gas"
  /\ Len(lastRun.log) < lastRun.groups
  /\ lastRun.log[Len(lastRun.log)].how \in {"find", "upsert"}

\* a run that has just read the staging table and grouped the events
FreshFetch(p) == pass[p].pc = "find" /\ pass[p].gi = 1 /\ pass[p].noAppend
\* the events the query of that run returned
Fetched == getUnprocessedEvents(events)
\* the groups of a run that hold event e
GroupsWith(p, e) ==
  {i \in 1..Len(pass[p].groups) :
     \E j \in 1..Len(pass[p].groups[i].evs) : pass[p].groups[i].evs[j].id = e.id}

C3_OneRecordAfterReprocessing ==
  \A c \in CallIds : Cardinality(RecordsOf(calls, c)) <= 1

\* the case of C3 that fails: two overlapping runs have both found no record
\* for the call and both created one
C3_TwoRecordsForOneCall ==
  \E c \in CallIds : Cardinality(RecordsOf(calls, c)) = 2

\* C7: under fairness every appended event with a Call ID is eventually
\* marked Processed (a mark is never taken back and the receiver stops
\* appending, so: again and again every appended event is marked), and the consumed events of one call are all linked to
\* one and the same call record, the only record of their callId.
C7_EventuallyConsumed ==
  /\ []<>(\A i \in 1..Len(events) : events[i].processed)
  /\ [](\A i, j \in 1..Len(events) :
          (events[i].processed /\ events[j].processed
           /\ events[i].callId = events[j].callId)
            => /\ events[i].mergedCallRecord = events[j].mergedCallRecord
               /\ RecordsOf(calls, events[i].callId) = {events[i].mergedCallRecord})

\* every event the receiver can append is consumed, three of them folded
\* into the record of one call
C7_AllConsumed ==
  /\ Len(events) = MaxEvents
  /\ \A i \in 1..Len(events) : events[i].processed
  /\ \E c \in CallIds :
       Cardinality({i \in 1..Len(events) : events[i].callId = c}) >= 2

\* the names of the IVR destinations of the group, in the order of the group
GrpIvrNames ==
  LET legs == SelectSeq(grp, LAMBDA e :
                e.destinationType = "ivr" /\ e.destinationName # "")
  IN [i \in 1..Len(legs) |-> legs[i].destinationName]

\* the names of a sequence in the order of their first occurrence
FirstSeen(names) ==
  LET firsts == {i \in 1..Len(names) : \A j \in 1..(i - 1) : names[j] # names[i]}
      nth(n) == CHOOSE i \in firsts : Cardinality({j \in firsts : j <= i}) = n
  IN [n \in 1..Cardinality(firsts) |-> names[nth(n)]]

HasIvrPath == out.impl \in {"node", "gas", "stream"}

\* C11 as stated: for a group whose IVR destinations are A, A, B, A in time
\* order, the extracted IVR path is "A -> B -> A".
C11_RevisitPreserved ==
  HasIvrPath /\ GrpIvrNames = <<"A", "A", "B", "A">>
    => out.data.ivrPath = "A -> B -> A"

\* C11: for a group whose IVR destinations are A, A, B, A in time order,
\* the extracted IVR path is "A -> B": the adjacent duplicate and the later
\* re-visit of A are both collapsed.
C11_RevisitCollapsed ==
  HasIvrPath /\ GrpIvrNames = <<"A", "A", "B", "A">>
    => out.data.ivrPath = "A -> B"

C11_RevisitExtracted ==
  /\ out.impl = "node"
  /\ GrpIvrNames = <<"A", "A", "B", "A">>
  /\ out.data.ivrPath = "A -> B"

\* C12: for every group in time order, the extracted IVR path holds the
\* non-empty destination names of the events whose destination type is ivr,
\* each once, in the order of their first occurrence.
C12_IvrPathGlobalDedup ==
  HasIvrPath => out.data.ivrPath = Join(FirstSeen(GrpIvrNames))

\* a group with a name visited again after another one, a leg to an IVR
\* node without a name or to a hunt group, merged by the Apps Script merge
C12_RouteWithRevisit ==
  /\ out.impl = "gas"
  /\ \E i, j, k \in 1..Len(GrpIvrNames) :
       /\ i < j /\ j < k
       /\ GrpIvrNames[i] = GrpIvrNames[k]
       /\ GrpIvrNames[i] # GrpIvrNames[j]
  /\ Len(GrpIvrNames) < Len(grp)
  /\ out.data.ivrPath = "A -> B"

\* C13: the duration an implementation computes for a group is never
\* negative: it is 0 when the answer time is later than the end time, and 0
\* when the answer time or the end time is absent.
C13_DurationClamped ==
  out.impl \in {"node", "stream"} =>
    /\ out.data.duration >= 0
    /\ (out.data.answerTime = 0 \/ out.data.endTime = 0 => out.data.duration = 0)

\* the case of C13 that fails: the caller's 'ended' event carries the start
\* time of the call, earlier than the answer, and the difference is kept
C13_NegativeDuration ==
  /\ out.impl = "node"
  /\ out.data.answerTime > out.data.endTime /\ out.data.endTime # 0
  /\ out.data.duration = out.data.endTime - out.data.answerTime
  /\ out.data.duration < 0

\* C14: the call data extracted from the seven events of the sample call has
\* finalStatus Answered, the IVR path Day -> discuss something -> before
\* connecting, the hunt group talk to Madrech, Chaim David Klein as the one
\* who answered, and a positive duration equal to end time minus answer time.
C14_SampleCallMerged ==
  out.impl = "node" /\ grp = SampleGroup =>
    /\ out.data.finalStatus = "Answered"
    /\ out.data.ivrPath = "Day -> discuss something -> before connecting"
    /\ out.data.huntGroup = "talk to Madrech"
    /\ out.data.pickedUpByName = "Chaim David Klein"
    /\ out.data.duration = out.data.endTime - out.data.answerTime
    /\ out.data.duration > 0

\* what the sample call yields: every field of C14 but the duration, which
\* is the 38 seconds from the start of the call to the answer, negated
C14_SampleCallNegative ==
  /\ out.impl = "node" /\ grp = SampleGroup
  /\ out.data.finalStatus = "Answered"
  /\ out.data.ivrPath = "Day -> discuss something -> before connecting"
  /\ out.data.huntGroup = "talk to Madrech"
  /\ out.data.pickedUpByName = "Chaim David Klein"
  /\ out.data.webhookEvents = 7
  /\ out.data.endTime = 1 /\ out.data.answerTime = 39
  /\ out.data.duration = 0 - 38

\* the groups of the last completed run whose merge raised an error
FailedGroups == Cardinality({i \in 1..Len(lastRun.log) : lastRun.log[i].how # "ok"})

\* C15: the summary a run of the Node merger returns reports the groups
\* processed, the records created, the records updated and the groups that
\* failed: failed is the number of groups whose merge raised an error, and
\* processed = created + updated + failed.
C15_SummaryCounts ==
  \A p \in Passes :
    result[p].status = "returned" /\ result[p].processed > 0 =>
      /\ "failed" \in DOMAIN result[p]
      /\ result[p].failed = FailedGroups
      /\ result[p].processed = result[p].created + result[p].updated + result[p].failed

\* the case of C15 that fails: a run with a group whose merge raised an
\* error returns a summary without a count of failures; the group whose
\* marking failed is counted as created
C15_FailureNotReported ==
  /\ result["A"].status = "returned"
  /\ result["A"].processed = 1 /\ result["A"].created = 1
  /\ FailedGroups = 1
  /\ lastRun.log[1].how = "mark"
  /\ DOMAIN result["A"] = {"status", "processed", "created", "updated"}

\* the fields of an event the receiver wrote
Payload(e) == [f \in DOMAIN e \ {"processed", "mergedCallRecord"} |-> e[f]]

\* C16: no step deletes an event or changes a field of an event other than
\* Processed and Merged Call Record, and a step of a merge pass (a store
\* call, a failure, a stop) leaves the set of events as it is: rows are
\* added by the receiver only.
C16_Step ==
  /\ Len(events') >= Len(events)
  /\ \A i \in 1..Len(events) : Payload(events'[i]) = Payload(events[i])
  /\ (Len(events') > Len(events) =>
        /\ calls' = calls
        /\ \A p \in Passes : pass'[p].pc = pass[p].pc /\ pass'[p].gi = pass[p].gi)
C16_EventsAppendOnly == [][C16_Step]_vars

\* a run of the Node merger over two groups is over: one group merged and
\* marked, the other failed, every row still there
C16_PartlyFailedPass ==
  /\ lastRun.impl = "node"
  /\ \E i, j \in 1..Len(lastRun.log) :
       lastRun.log[i].how = "ok" /\ lastRun.log[j].how # "ok"
  /\ Len(events) = MaxEvents
  /\ \E i \in 1..Len(events) : events[i].processed /\ events[i].mergedCallRecord # 0
  /\ \A i \in 1..Len(events) : events[i].id = i /\ events[i].status # ""

\* C17: an event without Call ID is placed in no group, produces no call
\* record and is not marked consumed.
C17_MalformedExcluded ==
  /\ \A i \in 1..Len(events) :
       events[i].callId = NoCallId =>
         ~events[i].processed /\ events[i].mergedCallRecord = 0
  /\ \A p \in Passes : \A g \in 1..Len(pass[p].groups) :
       \A i \in 1..Len(pass[p].groups[g].evs) :
         pass[p].groups[g].evs[i].callId # NoCallId
  /\ \A r \in 1..Len(calls) : calls[r].tbCallId \in CallIds

\* the case of C17 that fails: the Node merger has merged an event without
\* Call ID into a call record of its own and marked it
C17_MalformedMerged ==
  \E i \in 1..Len(events) :
    /\ events[i].callId = NoCallId
    /\ events[i].processed
    /\ events[i].mergedCallRecord \in 1..Len(calls)
    /\ calls[events[i].mergedCallRecord].tbCallId = ""
    /\ lastRun.impl = "node"

\* C18: extractCallData applied to a group without events returns call data
\* with finalStatus Abandoned and every optional field empty; it does not
\* throw.
C18_EmptyGroupAbandoned ==
  out.impl = "node" /\ grp = <<>> =>
    /\ out.data # TypeError
    /\ out.data.finalStatus = "Abandoned"
    /\ out.data.huntGroup = "" /\ out.data.ivrPath = ""
    /\ out.data.pickedUpByName = "" /\ out.data.pickedUpByExtension = ""
    /\ out.data.answerTime = 0 /\ out.data.endTime = 0
    /\ out.data.duration = 0

\* the case of C18 that fails: the group without events makes
\* extractCallData throw
C18_EmptyGroupThrows ==
  /\ out.impl = "node" /\ grp = <<>>
  /\ out.data = TypeError

\* every consumed event is linked to a record of its call, no other is linked
ConsumedLinked ==
  \A i \in 1..Len(events) :
    IF events[i].processed
    THEN /\ events[i].mergedCallRecord \in 1..Len(calls)
         /\ calls[events[i].mergedCallRecord].tbCallId = events[i].callId
    ELSE events[i].mergedCallRecord = 0

\* C19: after every step, each event with Processed set has Merged Call
\* Record set to an existing call record whose call id is the event's Call
\* ID, an unconsumed event has no link, and a link that is set is not
\* changed by the step.
C19_Step ==
  /\ ConsumedLinked'
  /\ \A i \in 1..Len(events) :
       events[i].mergedCallRecord # 0 =>
         events'[i].mergedCallRecord = events[i].mergedCallRecord
GroupDone(p) ==
  /\ pass[p].pc # "idle"
  /\ pass'[p].pc = "idle" \/ pass'[p].gi # pass[p].gi

\* C20: when a pass is done with a group, by success, by a store call that
\* throws or by a stop of the process, either every event of the group is
\* marked consumed and linked or none is, whatever the size of the group.
C20_Step ==
  \A p \in Passes :
    GroupDone(p) =>
      LET ids == {Group(pass[p]).evs[i].id : i \in 1..Len(Group(pass[p]).evs)}
      IN \/ \A id \in ids :
              events'[id].processed /\ events'[id].mergedCallRecord # 0
         \/ \A id \in ids :
              ~events'[id].processed /\ events'[id].mergedCallRecord = 0
C20_NoPartialGroup == [][C20_Step]_vars

\* the case of C20 that fails: the Node merger has marked the first batch of
\* a group larger than the batch limit, the update of the second batch
\* threw, and the run is over with the rest of the group unconsumed
C20_FirstBatchOnly ==
  /\ pass["A"].pc = "idle"
  /\ lastRun.impl = "node" /\ lastRun.log = <<[how |-> "mark", marked |-> TRUE]>>
  /\ Len(events) > BatchLimit
  /\ \A i \in 1..BatchLimit : events[i].processed /\ events[i].mergedCallRecord = 1
  /\ \A i \in (BatchLimit + 1)..Len(events) : ~events[i].processed

\* C21: a run of processUnprocessedEvents throws to its caller only when
\* the fetch of the unprocessed events failed, and then no call record and
\* no event has changed; a store call that fails for a group never makes the
\* run throw.
C21_Step ==
  \A p \in Passes :
    /\ result'[p].status = "threw" =>
         pass[p].pc = "idle" /\ events' = events /\ calls' = calls
    /\ pass[p].pc # "idle" => result'[p].status # "threw"
C21_PassLevelFailure == [][C21_Step]_vars

\* a run in which a group failed has returned its summary, and the fetch of
\* the next run has failed: that run threw, the events are still unconsumed
C21_FetchFailed ==
  /\ result["A"].status = "threw"
  /\ lastRun.impl = "node"
  /\ \E i \in 1..Len(lastRun.log) : lastRun.log[i].how # "ok"
  /\ \E i \in 1..Len(events) : ~events[i].processed

\* the time an event is ordered by: its event time, or the start time of
\* the call when it has none
EventTime(e) == IF e.startTime # 0 THEN e.startTime ELSE e.callStartTime

\* s holds the events of g, ascending by event time, events of the same time
\* in the order of arrival
InCausalOrder(s, g) ==
  /\ Len(s) = Len(g)
  /\ \A i \in 1..Len(g) : \E j \in 1..Len(s) : s[j] = g[i]
  /\ \A i, j \in 1..Len(s) :
       i < j =>
         \/ EventTime(s[i]) < EventTime(s[j])
         \/ EventTime(s[i]) = EventTime(s[j]) /\ s[i].id < s[j].id

\* C22: the sort before the extraction orders the events of the group
\* ascending by event time, an event without event time by the start time
\* of the call, events of the same time in the order of arrival.
C22_CausalOrder ==
  out.impl \in {"node sort", "gas sort"} => InCausalOrder(out.data, grp)

\* the case of C22 that fails: mergeCallEvents has put an event without
\* event time after a later event: it orders it by its arrival
C22_OrderedByArrival ==
  /\ out.impl = "node sort"
  /\ Len(grp) >= 2
  /\ \E i, j \in 1..Len(out.data) :
       /\ i < j
       /\ out.data[j].startTime = 0
       /\ out.data[j].callStartTime < out.data[i].startTime

\* the event time of the latest event of the group with status ended, 0
\* (null) without one
LatestEnded ==
  LET ends == {grp[i].startTime : i \in {j \in 1..Len(grp) : grp[j].status = "ended"}}
  IN IF ends = {} THEN 0 ELSE CHOOSE t \in ends : \A u \in ends : u <= t

\* C23: the end time of the call data is the event time of the latest event
\* with status ended, whatever sent it, and null when no event has status
\* ended.
C23_LatestEndedEvent ==
  out.impl \in {"node", "gas", "stream"} => out.data.endTime = LatestEnded

\* the case of C23 that fails: the caller's leg ended at the start time of
\* the call, the phone's leg later; the Node merger takes the former
C23_FirstExternalEnd ==
  /\ out.impl = "node"
  /\ \E i, j \in 1..Len(grp) :
       /\ IsEndedFromExternal(grp[i])
       /\ grp[j].status = "ended" /\ grp[j].sendType = "phone"
       /\ grp[j].startTime > grp[i].startTime
       /\ out.data.endTime = grp[i].startTime
  /\ out.data.endTime < LatestEnded

\* the consumed events of call c
ConsumedOf(c) == {i \in 1..Len(events) : events[i].processed /\ events[i].callId = c}

\* C24: when no run is under way, the event count of every call record is
\* the number of consumed events of its call.
C24_EventCount ==
  (\A p \in Passes : pass[p].pc = "idle") =>
    \A r \in 1..Len(calls) :
      calls[r].tbCallId \in CallIds =>
        calls[r].webhookEvents = Cardinality(ConsumedOf(calls[r].tbCallId))

\* the case of C24 that fails: two runs without a failure have consumed the
\* three events of a call, and its record counts the events of the second
\* run only
C24_LastGroupCounted ==
  /\ pass["A"].pc = "idle"
  /\ CleanRun
  /\ \E r \in 1..Len(calls) :
       /\ calls[r].tbCallId \in CallIds
       /\ Cardinality(ConsumedOf(calls[r].tbCallId)) = 3
       /\ calls[r].webhookEvents = 1

\* the payload lacks callId, status or direction
LacksRequired(d) == d.callId = "" \/ d.status = "" \/ d.direction = ""
\* the step appends exactly one event, the row of payload d, unprocessed
AppendsOne(d) ==
  /\ Len(events') = Len(events) + 1
  /\ SubSeq(events', 1, Len(events)) = events
  /\ events'[Len(events')].callId = d.callId
  /\ events'[Len(events')].status = d.status
  /\ events'[Len(events')].direction = d.direction
  /\ events'[Len(events')].processed = FALSE
\* the handler answered with the list of what is missing
ListsMissing(d, r) ==
  /\ r.success = FALSE
  /\ DOMAIN r = {"success", "errors"}
  /\ r.errors # <<>>
  /\ ("Missing callId" \in SeqRange(r.errors)) <=> (d.callId = "")
  /\ ("Missing status" \in SeqRange(r.errors)) <=> (d.status = "")
  /\ ("Missing direction" \in SeqRange(r.errors)) <=> (d.direction = "")

C25_StepOriginal ==
  out'.impl = "receiver" =>
    IF LacksRequired(out'.webhook)
    THEN ListsMissing(out'.webhook, out'.response) /\ events' = events
    ELSE AppendsOne(out'.webhook)

C25_Step ==
  out'.impl = "receiver" =>
    IF LacksRequired(out'.webhook)
    THEN ListsMissing(out'.webhook, out'.response) /\ events' = events
    ELSE \/ out'.response.success = TRUE /\ AppendsOne(out'.webhook)
         \/ /\ out'.response.success = FALSE
            /\ "error" \in DOMAIN out'.response
            /\ events' = events

AnsweredByPopulated(r) ==
  r.pickedUpByName # "" /\ r.pickedUpByExtension # "" /\ r.answerTime # 0

\* C26: every stored call record is internally consistent: its finalStatus
\* is Answered if and only if its picked-up-by name and extension and its
\* answer time are populated, and its direction is Missed if and only if
\* its finalStatus is not Answered.
C26_RecordConsistent ==
  \A r \in 1..Len(calls) :
    /\ (calls[r].finalStatus = "Answered") <=> AnsweredByPopulated(calls[r])
    /\ (calls[r].direction = "Missed") <=> (calls[r].finalStatus # "Answered")

\* the case of C26 that fails: the answered call c1 was merged, its ended
\* event came later and was merged by a run without a failure; the record
\* says IVR Only and Missed and still names who picked up
C26_MissedWithAnswerer ==
  /\ \A p \in Passes : pass[p].pc = "idle"
  /\ CleanRun
  /\ \E r \in 1..Len(calls) :
       /\ calls[r].tbCallId = "c1"
       /\ Cardinality(ConsumedOf("c1")) = 3
       /\ calls[r].finalStatus = "IVR Only"
       /\ calls[r].direction = "Missed"
       /\ AnsweredByPopulated(calls[r])

\* two call records agree on the fields both implementations derive
AgreeOn(a, b) ==
  /\ a.finalStatus = b.finalStatus
  /\ a.direction = b.direction
  /\ a.ivrPath = b.ivrPath
  /\ a.huntGroup = b.huntGroup
  /\ a.pickedUpByName = b.pickedUpByName
  /\ a.pickedUpByExtension = b.pickedUpByExtension
  /\ a.answerTime = b.answerTime
  /\ a.endTimeNull = b.endTimeNull
  /\ a.endTime = b.endTime
  /\ a.duration = b.duration

\* C27: for the events of one call delivered in time order and ending with
\* the 'ended' event of the external party, the record the streaming
\* handler saves and the record WebhookMergerService extracts from the same
\* events have the same finalStatus, direction, IVR path, hunt group,
\* answered-by fields, end time and duration.
C27_BatchStreamAgree ==
  /\ out.impl = "stream" => AgreeOn(out.data, NodeCallData([key |-> "c1", evs |-> grp]))
  /\ out.impl = "node" => AgreeOn(out.data, StreamSaved(grp))

\* a case of C27 that fails: IVR, then the hunt group rings, a phone of the
\* hunt group answers, the caller hangs up; both say Answered by the same
\* phone with the same times, and name different hunt groups
C27_HuntGroupDiffers ==
  /\ out.impl = "stream"
  /\ Len(grp) = 3
  /\ grp[1].destinationType = "huntgroup"
  /\ grp[2].sendType = "huntgroup" /\ IsAnsweredByPhone(grp[2])
  /\ IsEndedFromExternal(grp[3]) /\ grp[3].startTime > grp[2].startTime
  /\ out.data.finalStatus = "Answered"
  /\ out.data.huntGroup = grp[2].destinationName
  /\ NodeCallData([key |-> "c1", evs |-> grp]).huntGroup = grp[1].destinationName
  /\ grp[1].destinationName # grp[2].destinationName
  /\ out.data.duration = NodeCallData([key |-> "c1", evs |-> grp]).duration

\* the names of the parties of kind huntgroup in the events evs
HuntGroupNames(evs) ==
  {evs[i].destinationName : i \in {j \in 1..Len(evs) : evs[j].destinationType = "huntgroup"}}
  \cup {evs[i].sendName : i \in {j \in 1..Len(evs) : evs[j].sendType = "huntgroup"}}

\* C28: whenever the extracted huntGroup is non-null it is the name of a
\* party of kind huntgroup in some event of the group: the destination name
\* of an event whose destination type is huntgroup, or the source name of an
\* event whose source type is huntgroup.
C28_HuntGroupIsHuntGroup ==
  (out.impl \in {"node", "stream"} /\ out.data.huntGroup # "")
    => out.data.huntGroup \in HuntGroupNames(grp)

\* the case of C28 that fails: the first hunt group leg of the group is the
\* hunt group ringing a phone, and the Node merger labels the call with the
\* name of the phone
C28_PhoneNameAsHuntGroup ==
  /\ out.impl = "node"
  /\ \E i \in 1..Len(grp) :
       /\ grp[i].sendType = "huntgroup" /\ grp[i].destinationType = "phone"
       /\ grp[i].destinationName # ""
       /\ \A j \in 1..Len(grp) : IsHuntGroupLeg(grp[j]) => grp[i].startTime <= grp[j].startTime
       /\ out.data.huntGroup = grp[i].destinationName
  /\ out.data.huntGroup \notin HuntGroupNames(grp)

\* the ids of the events of group g
IdsOf(g) == {g.evs[k].id : k \in 1..Len(g.evs)}
\* the ids of the events a running pass fetched
FetchedBy(ps) == UNION {IdsOf(ps.groups[k]) : k \in 1..Len(ps.groups)}

C29_Step ==
  /\ \A p \in Passes :
       \* the groups of a run are those of its fetch until it ends
       /\ (pass[p].pc # "idle" /\ pass'[p].pc # "idle")
            => pass'[p].groups = pass[p].groups
       \* an event appended during a run is in no group of it
       /\ (pass[p].pc # "idle" /\ Len(events') > Len(events))
            => /\ pass'[p].groups = pass[p].groups
               /\ \A i \in (Len(events) + 1)..Len(events') :
                    events'[i].id \notin FetchedBy(pass'[p])
  \* an event is marked by a pass that is past the upsert of the group the
  \* event is in, and the record it upserted counts the events of that group
  /\ \A i \in 1..Len(events) :
       (~events[i].processed /\ events'[i].processed)
         => \E p \in Passes :
              /\ pass[p].pc = "mark"
              /\ events[i].id \in IdsOf(Group(pass[p]))
              /\ pass[p].recId \in 1..Len(calls)
              /\ calls[pass[p].recId].webhookEvents = Len(Group(pass[p]).evs)
  /\ Len(events') >= Len(events)

\* C29: an event the receiver appends while a merge pass is running (after
\* its fetch) is not marked consumed by that pass: every event a pass marks
\* consumed is a member of the group from which the pass computed the record
\* it upserted.
C29_MarksOnlyItsGroup == [][C29_Step]_vars

\* a run fetched every unprocessed event, an event of call c1 was appended
\* during the run, and the run ended without a failure: the events of c1 it
\* fetched are consumed, the appended one is not
C29_AppendedDuringRun ==
  /\ pass["A"].pc = "idle"
  /\ lastRun.impl # "" /\ lastRun.all /\ ~lastRun.quiet
  /\ \A i \in 1..Len(lastRun.log) : lastRun.log[i].how = "ok"
  /\ \E i, j \in 1..Len(events) :
       /\ i < j
       /\ events[i].callId = "c1" /\ events[i].processed
       /\ events[j].callId = "c1" /\ ~events[j].processed

\* webhookEvents of the entry of call c, 0 without an entry
CountOf(cache, objs, c) == IF cache[c] = 0 THEN 0 ELSE objs[cache[c]].webhookEvents
\* the store holds a record of call c written from the object cd
SavedFrom(tbl, c, cd) ==
  \E r \in 1..Len(tbl) :
    /\ c \in {tbl[r].tbCallId, tbl[r].telebroadCallId}
    /\ tbl[r].webhookEvents = cd.webhookEvents
    /\ tbl[r].finalStatus = cd.finalStatus

C30_Step ==
  \* a webhook without callId is answered with an error, the cache stays
  /\ (out'.n = out.n + 1 /\ out'.webhook.callId = NoCallId)
       => /\ out'.response = <<[success |-> FALSE, error |-> "Missing callId"]>>
          /\ callCache' = callCache /\ callData' = callData
  \* an entry is removed in the step in which a save for its call succeeds:
  \* the save of a request that got the end of the caller's leg, or of
  \* flushStaleCalls for a call that started more than the timeout ago
  /\ \A c \in CallIds :
       (callCache[c] # 0 /\ callCache'[c] = 0)
         => \E h \in Savers :
              /\ saving[h] # 0 /\ saving'[h] = 0
              /\ callData[saving[h]].callId = c
              /\ out'.of = h /\ out'.response[1].success = TRUE
              /\ SavedFrom(calls', c, callData[saving[h]])
              /\ h = "flush" => now - callData[saving[h]].callStartTime > CACHE_TIMEOUT
              /\ h \in Handlers => callData[saving[h]].endTime # 0
  \* a save that fails leaves the cache as it is
  /\ \A h \in Savers :
       (saving[h] # 0 /\ saving'[h] = 0 /\ out'.of = h
          /\ out'.response[1].success = FALSE)
         => callCache' = callCache /\ callData' = callData
  \* every webhook with a callId counts once in the entry of its call, and
  \* nothing else changes a count
  /\ \A c \in CallIds :
       IF out'.n = out.n + 1 /\ out'.webhook.callId = c
       THEN /\ callCache'[c] # 0
            /\ callCache[c] # 0 => callCache'[c] = callCache[c]
            /\ CountOf(callCache', callData', c) = CountOf(callCache, callData, c) + 1
       ELSE callCache'[c] # 0
              => /\ callCache'[c] = callCache[c]
                 /\ CountOf(callCache', callData', c) = CountOf(callCache, callData, c)

====
